---------------------------- MODULE Spec2Model ----------------------------
(***************************************************************************)
(* TopModel: the three geometric classifiers of a protein structure,       *)
(*   get_clashes      src/src/topmodel/check/clashes.py                    *)
(*   get_amid_stereo  src/topmodel/src/amide_bond.py                       *)
(*   get_chirality    src/src/topmodel/check/chirality.py                  *)
(* with SelectiveStructure.get_residues (src/src/topmodel/util/utils.py),  *)
(* which decides the residues they see, and the App object and the main    *)
(* command that call them (src/src/topmodel/app.py).                       *)
(*                                                                         *)
(* Units.  Lengths are integers in picometres (1 A = 100 pm), so the van   *)
(* der Waals table holds mendeleev's pm values undivided, the 0.5 A        *)
(* tolerance is 50, the 5 A query radius 500 and the 2 A chain-break guard *)
(* 200.  A distance is never computed as a root: d < t is decided as       *)
(* t > 0 /\ d^2 < t^2, which is exact.  Angles are integers in units of    *)
(* pi/(6*Sixth), so pi/6 = Sixth and 2*pi = 12*Sixth.                      *)
(* Sequences are 1-based where Python's lists are 0-based; differences of  *)
(* indices, the only thing the code reads of them, are unchanged.          *)
(***************************************************************************)
EXTENDS Integers, Sequences, FiniteSets, TLC

\* ---------------------------------------------------------------- bounds
MaxRes == 3
MaxAtoms == 3
\* angle resolution: pi/6 is Sixth units
Sixth == 2

VARIABLES
    struc,          \* the Structure handed to the classifiers (read only)
    clash_pc,       \* get_clashes: "start", "loop", "returned", "raised"
    atoms,          \* get_clashes: the flat list of heavy atoms
    atom_to_residue,\* get_clashes: atom index -> residue index
    close_points,   \* get_clashes: candidate pairs not yet visited by the loop
    clashes,        \* get_clashes: dict res_a -> set of res_b
    clash_result,   \* get_clashes: the returned mapping, or the exception
    amide_pc,       \* get_amid_stereo: "start", "loop", "returned", "raised"
    header,         \* get_amid_stereo: position of the iterator header
    tailer,         \* get_amid_stereo: position of the iterator tailer
    stereo,         \* get_amid_stereo: defaultdict label -> list of records
    amide_result,   \* get_amid_stereo: the returned mapping, or the exception
    chir_pc,        \* get_chirality: "start", "loop", "returned", "raised"
    chir_i,         \* get_chirality: position of the residue iterator
    chirality,      \* get_chirality: dict label -> list of records
    chir_result,    \* get_chirality: the returned mapping, or the exception
    parsed,         \* get_structure: the Structure as the parser built it
    app,            \* the App object: funcs, display, _n_res, _data, _score
    app_out,        \* the outcome of the last call made on the App object
    argv,           \* main: the files and the flags of the command line
    main_i,         \* main: position of the loop over the paths
    stdout,         \* main: what click.echo has printed so far
    exit_code       \* main: the exit code of the command, once it has ended

clash_vars == <<clash_pc, atoms, atom_to_residue, close_points, clashes, clash_result>>

amide_vars == <<amide_pc, header, tailer, stereo, amide_result>>

chir_vars == <<chir_pc, chir_i, chirality, chir_result>>

app_vars == <<app, app_out>>

main_vars == <<argv, main_i, stdout, exit_code>>

outer_vars == <<parsed, app_vars, main_vars>>

vars == <<struc, clash_vars, amide_vars, chir_vars, outer_vars>>

\* ------------------------------------------------------------ vector help
Sub(p, q) == <<p[1] - q[1], p[2] - q[2], p[3] - q[3]>>

Dot(p, q) == p[1] * q[1] + p[2] * q[2] + p[3] * q[3]

Cross(p, q) ==
    <<p[2] * q[3] - p[3] * q[2], p[3] * q[1] - p[1] * q[3], p[1] * q[2] - p[2] * q[1]>>

\* Squared Euclidean distance of two coordinates (Bio.PDB Atom.__sub__,
\* before its square root).
Dist2(p, q) == Dot(Sub(p, q), Sub(p, q))

\* distance < t, for the distance whose square is d2
DistLess(d2, t) == t > 0 /\ d2 < t * t

\* distance > t
DistGreater(d2, t) == t < 0 \/ d2 > t * t

\* mutant: the set in no particular (here: descending) order
RECURSIVE unsorted(_)
unsorted(S) ==
    IF S = {} THEN <<>>
    ELSE LET m == CHOOSE x \in S : \A y \in S : x >= y
         IN  <<m>> \o unsorted(S \ {m})

\* ascending list of a finite set of integers: Python's sorted()
RECURSIVE sorted(_)
sorted(S) ==
    IF S = {} THEN <<>>
    ELSE LET m == CHOOSE x \in S : \A y \in S : x <= y
         IN  <<m>> \o sorted(S \ {m})

RECURSIVE Flatten(_)
Flatten(ss) == IF ss = <<>> THEN <<>> ELSE Head(ss) \o Flatten(Tail(ss))

\* ------------------------------------------------------------- utils.py
\* Enum values: the severity a record carries.
ChiralCenters == [L |-> 0, D |-> 10]

AmideBonds == [TRANS |-> 0, CIS_PROLINE |-> 1, NON_PLANAR |-> 2, CIS |-> 10]

Clashes == [VDW |-> 1]

\* mutant: the pair carries the score of its inner SingleIrregularity, 0
CoupleIrregularity_inner_score(res_a, res_b, score) ==
    [res_a |-> res_a, res_b |-> res_b, score |-> 0]

\* CoupleIrregularity(res_a, res_b, score); residues are named by position.
CoupleIrregularity(res_a, res_b, score) ==
    [res_a |-> res_a, res_b |-> res_b, score |-> score]

SingleIrregularity(residue, score) == [residue |-> residue, score |-> score]

\* ------------------------------------------------------------ clashes.py
\* element -> van der Waals radius; mendeleev's vdw_radius column (pm).
VDW_RADII == [H |-> 110, C |-> 170, N |-> 155, O |-> 152, S |-> 180, Cs |-> 343]

backbone == {"C", "CA", "N", "O", "CD"}

\* mutant: hydrogens are not excluded
heavy_all(entity) == entity.atoms

\* Generator that excludes Hydrogens.
heavy(entity) == SelectSeq(entity.atoms, LAMBDA atom : atom.element # "H")

\* lines 29-37: the flat list of heavy atoms, in residue order
heavy_atoms(s) == Flatten([i \in 1..Len(s) |-> heavy(s[i])])

\* lines 29-37: atom index -> residue index
heavy_atom_residues(s) ==
    Flatten([i \in 1..Len(s) |-> [k \in 1..Len(heavy(s[i])) |-> i]])

\* KDTree(atomic_coordinates).query_pairs(5): the pairs (i, j), i < j, of
\* points at distance at most 5 A.
query_pairs(points, r) ==
    {p \in (1..Len(points)) \X (1..Len(points)) :
        /\ p[1] < p[2]
        /\ ~DistGreater(Dist2(points[p[1]].coord, points[p[2]].coord), r)}

\* line 46: the filter of sequence-adjacent residues
adjacent_ok(res_a, res_b, a, b) ==
    \/ res_b - res_a # 1
    \/ (atoms[a].name \in backbone) # (atoms[b].name \in backbone)

\* mutant: the threshold itself counts as a clash (<= for <)
is_clash_le(res_a, res_b, a, b) ==
    LET distance == Dist2(atoms[a].coord, atoms[b].coord)
        combined_radii == VDW_RADII[atoms[a].element] + VDW_RADII[atoms[b].element]
    IN  /\ ~DistGreater(distance, combined_radii - 50)
        /\ ~(struc[res_a].resname = "CYX" /\ struc[res_b].resname = "CYX")

\* mutant: one CYX residue is enough to suppress the clash (or for and)
is_clash_any_cyx(res_a, res_b, a, b) ==
    LET distance == Dist2(atoms[a].coord, atoms[b].coord)
        combined_radii == VDW_RADII[atoms[a].element] + VDW_RADII[atoms[b].element]
    IN  /\ DistLess(distance, combined_radii - 50)
        /\ ~(struc[res_a].resname = "CYX" \/ struc[res_b].resname = "CYX")

\* lines 54-55 after line 51-52: the clash test of one atom pair
is_clash(res_a, res_b, a, b) ==
    LET distance == Dist2(atoms[a].coord, atoms[b].coord)
        combined_radii == VDW_RADII[atoms[a].element] + VDW_RADII[atoms[b].element]
    IN  /\ DistLess(distance, combined_radii - 50)
        /\ ~(struc[res_a].resname = "CYX" /\ struc[res_b].resname = "CYX")

\* lines 22-40: collect the heavy atoms, build the tree, query it.
\* KDTree([]) rejects an empty point list (its data is not 2-dimensional).
get_clashes_build ==
    /\ clash_pc = "start"
    /\ atoms' = heavy_atoms(struc)
    /\ atom_to_residue' = heavy_atom_residues(struc)
    /\ IF heavy_atoms(struc) = <<>>
       THEN /\ clash_pc' = "raised"
            /\ clash_result' = [exc |-> "ValueError"]
            /\ close_points' = {}
       ELSE /\ clash_pc' = "loop"
            /\ close_points' = query_pairs(heavy_atoms(struc), 500)
            /\ clash_result' = clash_result
    /\ UNCHANGED <<outer_vars, struc, clashes, amide_vars, chir_vars>>

\* lines 42-57: one iteration of the loop over close_points, a set, whose
\* iteration order is not fixed by its contents.
get_clashes_loop ==
    /\ clash_pc = "loop"
    /\ \E p \in close_points :
        LET a == p[1]
            b == p[2]
            res_a == atom_to_residue[a]
            res_b == atom_to_residue[b]
        IN  /\ close_points' = close_points \ {p}
            /\ IF /\ res_a # res_b
                  /\ (res_a \notin DOMAIN clashes \/ res_b \notin clashes[res_a])
                  /\ adjacent_ok(res_a, res_b, a, b)
               THEN IF \/ atoms[a].element \notin DOMAIN VDW_RADII
                       \/ atoms[b].element \notin DOMAIN VDW_RADII
                    THEN /\ clash_pc' = "raised"
                         /\ clash_result' = [exc |-> "KeyError"]
                         /\ clashes' = clashes
                    ELSE /\ clashes' =
                              IF ~is_clash(res_a, res_b, a, b) THEN clashes
                              ELSE IF res_a \in DOMAIN clashes
                                   THEN [clashes EXCEPT ![res_a] = @ \cup {res_b}]
                                   ELSE clashes @@ (res_a :> {res_b})
                         /\ UNCHANGED <<clash_pc, clash_result>>
               ELSE UNCHANGED <<clash_pc, clash_result, clashes>>
    /\ UNCHANGED <<outer_vars, struc, atoms, atom_to_residue, amide_vars, chir_vars>>

\* lines 59-62: the returned mapping
get_clashes_return ==
    /\ clash_pc = "loop"
    /\ close_points = {}
    /\ clash_pc' = "returned"
    /\ clash_result' =
         [VDW |-> Flatten([i \in 1..Len(sorted(DOMAIN clashes)) |->
                    LET a == sorted(DOMAIN clashes)[i]
                        values == sorted(clashes[a])
                    IN  [j \in 1..Len(values) |->
                            CoupleIrregularity(a, values[j], Clashes.VDW)]])]
    /\ UNCHANGED <<outer_vars, struc, atoms, atom_to_residue, close_points, clashes, amide_vars, chir_vars>>

NextClashes == get_clashes_build \/ get_clashes_loop \/ get_clashes_return

\* ------------------------------------------------- structures for clashes
\* A chain laid along the x axis, residue r around 150*(r-1) pm, each atom
\* name at its own offset.  Residues i and i+2 then sit about 3 A apart,
\* around the clash thresholds (C-C 290, C-S 300, S-S 310), and
\* neighbours sit about 1.5 A apart, well inside every threshold.
ClashNames == <<"CA", "CD", "SG">>

ClashResnames == {"LYS", "PRO", "CYX"}

ElementOf(name) == IF name = "SG" THEN "S" ELSE IF name = "H" THEN "H" ELSE "C"

OffsetOf(name) == IF name = "CA" THEN 0 ELSE IF name = "CD" THEN 10 ELSE 20

ClashAtom(r, name) ==
    [name |-> name, element |-> ElementOf(name),
     coord |-> <<150 * (r - 1) + OffsetOf(name), 0, 0>>]

\* the residue at position r holding the atoms named in `present`
ClashResidue(r, resname, present) ==
    [resname |-> resname, omega |-> 0,
     atoms |-> [k \in 1..Len(SelectSeq(ClashNames, LAMBDA n : n \in present)) |->
                  ClashAtom(r, SelectSeq(ClashNames, LAMBDA n : n \in present)[k])]]

RECURSIVE SumCard(_)
SumCard(f) ==
    IF f = <<>> THEN 0 ELSE Cardinality(Head(f)) + SumCard(Tail(f))

\* a residue without atoms keeps one name: nothing reads it
ClashStructures ==
    {[r \in 1..MaxRes |-> ClashResidue(r, names[r], present[r])] :
        <<names, present>> \in
          {np \in [1..MaxRes -> ClashResnames] \X
                  [1..MaxRes -> SUBSET {ClashNames[k] : k \in 1..Len(ClashNames)}] :
              /\ SumCard(np[2]) <= MaxAtoms
              /\ \A r \in 1..MaxRes : np[2][r] = {} => np[1][r] = "LYS"}}

\* app.py lines 32-60: the App object as __init__ leaves it; an attribute
\* that has not been assigned yet is Unset, an assigned one holds its value
Unset == [set |-> FALSE]

Value(v) == [set |-> TRUE, value |-> v]

App(amides, chiralities, with_clashes) ==
    [funcs |-> (IF chiralities THEN <<"get_chirality">> ELSE <<>>)
               \o (IF amides THEN <<"get_amide_stereo">> ELSE <<>>)
               \o (IF with_clashes THEN <<"get_clashes">> ELSE <<>>),
     display |-> (IF chiralities THEN {"D"} ELSE {})
                 \cup (IF amides THEN {"CIS", "CIS_PROLINE", "NON_PLANAR"} ELSE {})
                 \cup (IF with_clashes THEN {"VDW"} ELSE {}),
     n_res |-> Unset, data |-> Unset, score |-> Unset]

\* no file has been parsed, no App object is in use and main is not running
InitOuter ==
    /\ parsed = <<>>
    /\ app = App(FALSE, FALSE, FALSE)
    /\ app_out = [op |-> "none"]
    /\ argv = [files |-> <<>>, amides |-> TRUE, chiralities |-> TRUE,
               clashes |-> TRUE, score |-> FALSE]
    /\ main_i = 0
    /\ stdout = <<>>
    /\ exit_code = Unset

\* the state of the three calls before any of them has begun
InitCalls ==
    /\ clash_pc = "start"
    /\ atoms = <<>>
    /\ atom_to_residue = <<>>
    /\ close_points = {}
    /\ clashes = <<>>
    /\ clash_result = [exc |-> "none"]
    /\ amide_pc = "start"
    /\ header = 0
    /\ tailer = 0
    /\ stereo = <<>>
    /\ amide_result = [exc |-> "none"]
    /\ chir_pc = "start"
    /\ chir_i = 0
    /\ chirality = <<>>
    /\ chir_result = [exc |-> "none"]

InitClashes == struc \in ClashStructures /\ InitCalls /\ InitOuter

SpecClashes == InitClashes /\ [][NextClashes]_vars

\* ------------------------------------- structures with other elements
\* The chain of the clash structures with CA and SG atoms and one more atom
\* in one residue, 5 pm from where its CA is or would be: a hydrogen, or an
\* atom whose element has no entry in VDW_RADII.
ExtraKinds == {[name |-> "HA", element |-> "H"], [name |-> "XX", element |-> "X"]}

ExtraAtom(r, kind) ==
    [name |-> kind.name, element |-> kind.element, coord |-> <<150 * (r - 1) + 5, 0, 0>>]

ElementStructures ==
    {[r \in 1..MaxRes |->
        [resname |-> "LYS", omega |-> 0,
         atoms |-> (IF r = at THEN <<ExtraAtom(r, kind)>> ELSE <<>>)
                   \o ClashResidue(r, "LYS", present[r]).atoms]] :
        at \in 1..MaxRes, kind \in ExtraKinds,
        present \in {f \in [1..MaxRes -> SUBSET {"CA", "SG"}] : SumCard(f) < MaxAtoms}}

InitElements == struc \in ElementStructures /\ InitCalls /\ InitOuter

SpecElements == InitElements /\ [][NextClashes]_vars

\* ------------------------------------- structures with a large element
\* Residues 2.75 A apart along x, each holding a CA and a caesium atom
\* (element Cs, 0.1 A further along) or a subset of the two: the caesium
\* atoms of residues 1 and 3 are 5.5 A apart.
WideAtom(r, name) ==
    [name |-> name, element |-> IF name = "CS" THEN "Cs" ELSE "C",
     coord |-> <<275 * (r - 1) + (IF name = "CS" THEN 10 ELSE 0), 0, 0>>]

WideResidue(r, present) ==
    [resname |-> "LYS", omega |-> 0,
     atoms |-> [k \in 1..Len(SelectSeq(<<"CA", "CS">>, LAMBDA n : n \in present)) |->
                  WideAtom(r, SelectSeq(<<"CA", "CS">>, LAMBDA n : n \in present)[k])]]

WideStructures ==
    {[r \in 1..MaxRes |-> WideResidue(r, present[r])] :
        present \in {f \in [1..MaxRes -> SUBSET {"CA", "CS"}] : SumCard(f) <= MaxAtoms + 1}}

InitWide == struc \in WideStructures /\ InitCalls /\ InitOuter

SpecWide == InitWide /\ [][NextClashes]_vars

\* --------------------------------------------------------- amide_bond.py
\* residue[name] of Bio.PDB: the atom of that name, a KeyError without one
has_atom(residue, name) ==
    \E k \in 1..Len(residue.atoms) : residue.atoms[k].name = name

atom_of(residue, name) ==
    residue.atoms[CHOOSE k \in 1..Len(residue.atoms) : residue.atoms[k].name = name]

atom_names(residue) == {residue.atoms[k].name : k \in 1..Len(residue.atoms)}

\* vectors.calc_dihedral(head CA, head C, tail N, tail CA), in ]-pi, pi]:
\* the structure carries it with the head residue.
calc_dihedral(head, tail) == head.omega

\* mutant: the remainder keeps the sign of the angle (fmod for mod)
np_fmod(angle) == IF angle < 0 THEN -((-angle) % (12 * Sixth)) ELSE angle % (12 * Sixth)

\* np.mod(angle, 2*np.pi)
np_mod(angle) == angle % (12 * Sixth)

\* mutant: the lower TRANS bound is exclusive (< for <=)
assign_stereo_open(head, tail) ==
    IF ~(has_atom(head, "CA") /\ has_atom(head, "C")
         /\ has_atom(tail, "N") /\ has_atom(tail, "CA"))
    THEN [raise |-> "MissingInformationError",
          diff |-> {"C", "CA", "N"} \ (atom_names(head) \cup atom_names(tail))]
    ELSE LET angle == np_mod(calc_dihedral(head, tail))
         IN  IF DistGreater(Dist2(atom_of(head, "C").coord, atom_of(tail, "N").coord), 200)
             THEN [label |-> "TRANS"]
             ELSE IF 5 * Sixth < angle /\ angle <= 7 * Sixth
             THEN [label |-> "TRANS"]
             ELSE IF (0 <= angle /\ angle <= Sixth)
                     \/ (11 * Sixth <= angle /\ angle <= 12 * Sixth)
             THEN IF tail.resname = "PRO"
                  THEN [raise |-> "ProlineException"]
                  ELSE [label |-> "CIS"]
             ELSE [label |-> "NON_PLANAR"]

\* mutant: the proline test reads the head residue
assign_stereo_head_pro(head, tail) ==
    IF ~(has_atom(head, "CA") /\ has_atom(head, "C")
         /\ has_atom(tail, "N") /\ has_atom(tail, "CA"))
    THEN [raise |-> "MissingInformationError",
          diff |-> {"C", "CA", "N"} \ (atom_names(head) \cup atom_names(tail))]
    ELSE LET angle == np_mod(calc_dihedral(head, tail))
         IN  IF DistGreater(Dist2(atom_of(head, "C").coord, atom_of(tail, "N").coord), 200)
             THEN [label |-> "TRANS"]
             ELSE IF 5 * Sixth <= angle /\ angle <= 7 * Sixth
             THEN [label |-> "TRANS"]
             ELSE IF (0 <= angle /\ angle <= Sixth)
                     \/ (11 * Sixth <= angle /\ angle <= 12 * Sixth)
             THEN IF head.resname = "PRO"
                  THEN [raise |-> "ProlineException"]
                  ELSE [label |-> "CIS"]
             ELSE [label |-> "NON_PLANAR"]

\* mutant: a distance of exactly 2 A is a chain break (>= for >)
assign_stereo_ge(head, tail) ==
    IF ~(has_atom(head, "CA") /\ has_atom(head, "C")
         /\ has_atom(tail, "N") /\ has_atom(tail, "CA"))
    THEN [raise |-> "MissingInformationError",
          diff |-> {"C", "CA", "N"} \ (atom_names(head) \cup atom_names(tail))]
    ELSE LET angle == np_mod(calc_dihedral(head, tail))
         IN  IF ~DistLess(Dist2(atom_of(head, "C").coord, atom_of(tail, "N").coord), 200)
             THEN [label |-> "TRANS"]
             ELSE IF 5 * Sixth <= angle /\ angle <= 7 * Sixth
             THEN [label |-> "TRANS"]
             ELSE IF (0 <= angle /\ angle <= Sixth)
                     \/ (11 * Sixth <= angle /\ angle <= 12 * Sixth)
             THEN IF tail.resname = "PRO"
                  THEN [raise |-> "ProlineException"]
                  ELSE [label |-> "CIS"]
             ELSE [label |-> "NON_PLANAR"]

\* lines 31-56: a label, or the exception raised
assign_stereo(head, tail) ==
    IF ~(has_atom(head, "CA") /\ has_atom(head, "C")
         /\ has_atom(tail, "N") /\ has_atom(tail, "CA"))
    THEN [raise |-> "MissingInformationError",
          diff |-> {"C", "CA", "N"} \ (atom_names(head) \cup atom_names(tail))]
    ELSE LET angle == np_mod(calc_dihedral(head, tail))
         IN  IF DistGreater(Dist2(atom_of(head, "C").coord, atom_of(tail, "N").coord), 200)
             THEN [label |-> "TRANS"]
             ELSE IF 5 * Sixth <= angle /\ angle <= 7 * Sixth
             THEN [label |-> "TRANS"]
             ELSE IF (0 <= angle /\ angle <= Sixth)
                     \/ (11 * Sixth <= angle /\ angle <= 12 * Sixth)
             THEN IF tail.resname = "PRO"
                  THEN [raise |-> "ProlineException"]
                  ELSE [label |-> "CIS"]
             ELSE [label |-> "NON_PLANAR"]

\* mutant: tailer is not advanced before the loop
next_skipped(position) == position

\* line 20, next(tailer): the iterator moves on by one residue
next_tailer(position) == position + 1

\* mutant: header and tailer are taken from the iterator get_chirality walks
get_amid_stereo_start_shared ==
    /\ amide_pc = "start"
    /\ IF Len(struc) = 0
       THEN /\ amide_pc' = "raised"
            /\ amide_result' = [exc |-> "StopIteration"]
            /\ UNCHANGED <<header, tailer>>
       ELSE /\ amide_pc' = "loop"
            /\ header' = (IF chir_i > 1 THEN chir_i ELSE 1)
            /\ tailer' = next_tailer(IF chir_i > 1 THEN chir_i ELSE 1)
            /\ amide_result' = amide_result
    /\ UNCHANGED <<outer_vars, struc, stereo, clash_vars, chir_vars>>

\* lines 17-20: the two iterators; next() of an exhausted iterator raises
\* StopIteration, which nothing catches.
get_amid_stereo_start ==
    /\ amide_pc = "start"
    /\ IF Len(struc) = 0
       THEN /\ amide_pc' = "raised"
            /\ amide_result' = [exc |-> "StopIteration"]
            /\ UNCHANGED <<header, tailer>>
       ELSE /\ amide_pc' = "loop"
            /\ header' = 1
            /\ tailer' = next_tailer(1)
            /\ amide_result' = amide_result
    /\ UNCHANGED <<outer_vars, struc, stereo, clash_vars, chir_vars>>

\* lines 21-27: one iteration of the loop over zip(header, tailer)
get_amid_stereo_loop ==
    /\ amide_pc = "loop"
    /\ tailer <= Len(struc)
    /\ LET head == struc[header]
           tail == struc[tailer]
           got == assign_stereo(head, tail)
           label == IF "label" \in DOMAIN got THEN got.label ELSE "CIS_PROLINE"
           record == CoupleIrregularity(header, tailer, AmideBonds[label])
       IN  IF "raise" \in DOMAIN got /\ got.raise # "ProlineException"
           THEN /\ amide_pc' = "raised"
                /\ amide_result' = [exc |-> got.raise, diff |-> got.diff]
                /\ UNCHANGED <<header, tailer, stereo>>
           ELSE /\ stereo' = IF label \in DOMAIN stereo
                             THEN [stereo EXCEPT ![label] = Append(@, record)]
                             ELSE stereo @@ (label :> <<record>>)
                /\ header' = header + 1
                /\ tailer' = tailer + 1
                /\ UNCHANGED <<amide_pc, amide_result>>
    /\ UNCHANGED <<outer_vars, struc, clash_vars, chir_vars>>

\* line 28: zip is exhausted with tailer
get_amid_stereo_return ==
    /\ amide_pc = "loop"
    /\ tailer > Len(struc)
    /\ amide_pc' = "returned"
    /\ amide_result' = stereo
    /\ UNCHANGED <<outer_vars, struc, header, tailer, stereo, clash_vars, chir_vars>>

NextAmide == get_amid_stereo_start \/ get_amid_stereo_loop \/ get_amid_stereo_return

\* ---------------------------------------------- structures for amide bonds
\* A chain along the x axis: N, CA and C of a residue 146 and 298 pm apart,
\* the N of the next residue `gap` pm after the C.  A choice is what is
\* drawn for one residue.
AmideChoice(resname, omega, gap, present) ==
    [resname |-> resname, omega |-> omega, gap |-> gap, present |-> present]

RECURSIVE AmideBase(_, _)
AmideBase(choices, r) ==
    IF r = 1 THEN 0 ELSE AmideBase(choices, r - 1) + 298 + choices[r - 1].gap

AmideAtoms(base, present) ==
    LET all == << [name |-> "N", element |-> "N", coord |-> <<base, 0, 0>>],
                  [name |-> "CA", element |-> "C", coord |-> <<base + 146, 0, 0>>],
                  [name |-> "C", element |-> "C", coord |-> <<base + 298, 0, 0>>] >>
    IN  SelectSeq(all, LAMBDA atom : atom.name \in present)

AmideChain(choices) ==
    [r \in 1..Len(choices) |->
        [resname |-> choices[r].resname, omega |-> choices[r].omega,
         atoms |-> AmideAtoms(AmideBase(choices, r), choices[r].present)]]

AmideResnames == {"ALA", "PRO"}

\* chains: a cis, a perpendicular and a trans angle behind a bonded link, a
\* cis angle behind a broken one; complete residues, and two incomplete ones
ChainChoices ==
    {AmideChoice(n, w, 133, {"N", "CA", "C"}) :
        n \in AmideResnames, w \in {0, 3 * Sixth, 6 * Sixth}}
    \cup {AmideChoice(n, 0, 300, {"N", "CA", "C"}) : n \in AmideResnames}
    \cup {AmideChoice("ALA", 0, 133, {"CA", "C"}), AmideChoice("ALA", 0, 133, {"N", "CA"})}

\* pairs: every angle calc_dihedral can return, on the grid; a bonded link,
\* one of exactly 2 A and one just above
PairChoices ==
    {AmideChoice(n, w, g, {"N", "CA", "C"}) :
        n \in AmideResnames, w \in (1 - 6 * Sixth)..(6 * Sixth), g \in {133, 200, 201}}

AmideStructures ==
    {AmideChain(choices) :
        choices \in UNION {[1..n -> ChainChoices] : n \in 0..MaxRes}}
    \cup {AmideChain(<<h, t>>) :
            h \in PairChoices, t \in {AmideChoice(n, 0, 133, {"N", "CA", "C"}) :
                                         n \in AmideResnames}}

InitAmide == struc \in AmideStructures /\ InitCalls /\ InitOuter

SpecAmide == InitAmide /\ [][NextAmide]_vars

\* ------------------------------------------- structures for the angle wrap
\* One bonded pair whose angle runs over three turns, from -2 pi to 4 pi:
\* more than calc_dihedral returns, for line 49 to have something to wrap.
WrapStructures ==
    {AmideChain(<<AmideChoice("ALA", w, 133, {"N", "CA", "C"}),
                  AmideChoice(n, 0, 133, {"N", "CA", "C"})>>) :
        w \in (-12 * Sixth)..(24 * Sixth), n \in AmideResnames}

InitWrap == struc \in WrapStructures /\ InitCalls /\ InitOuter

SpecWrap == InitWrap /\ [][NextAmide]_vars

\* ----------------------------------------------------------- chirality.py
\* mutant: the labels of the two signs are exchanged
assign_chirality_swapped(residue) ==
    IF ~has_atom(residue, "CA") THEN [raise |-> "MissingInformationError"]
    ELSE IF ~has_atom(residue, "CB")
    THEN IF residue.resname = "GLY" THEN [label |-> "L"]
         ELSE [raise |-> "MissingInformationError"]
    ELSE IF ~has_atom(residue, "N") \/ ~has_atom(residue, "C")
    THEN [raise |-> "KeyError"]
    ELSE LET c_alpha == atom_of(residue, "CA").coord
             c_beta == atom_of(residue, "CB").coord
             n == atom_of(residue, "N").coord
             c == atom_of(residue, "C").coord
             assignment == Dot(Sub(c_alpha, c_beta), Cross(Sub(n, c_beta), Sub(c, c_beta)))
         IN  IF assignment > 0 THEN [label |-> "L"]
             ELSE IF assignment < 0 THEN [label |-> "D"]
             ELSE [raise |-> "ValueError"]

\* mutant: N and C are fetched before CB is looked for
assign_chirality_eager(residue) ==
    IF ~has_atom(residue, "CA") THEN [raise |-> "MissingInformationError"]
    ELSE IF ~has_atom(residue, "N") \/ ~has_atom(residue, "C")
    THEN [raise |-> "KeyError"]
    ELSE IF ~has_atom(residue, "CB")
    THEN IF residue.resname = "GLY" THEN [label |-> "L"]
         ELSE [raise |-> "MissingInformationError"]
    ELSE LET c_alpha == atom_of(residue, "CA").coord
             c_beta == atom_of(residue, "CB").coord
             n == atom_of(residue, "N").coord
             c == atom_of(residue, "C").coord
             assignment == Dot(Sub(c_alpha, c_beta), Cross(Sub(n, c_beta), Sub(c, c_beta)))
         IN  IF assignment > 0 THEN [label |-> "D"]
             ELSE IF assignment < 0 THEN [label |-> "L"]
             ELSE [raise |-> "ValueError"]

\* mutant: a zero volume is filed under L instead of raising
assign_chirality_no_zero(residue) ==
    IF ~has_atom(residue, "CA") THEN [raise |-> "MissingInformationError"]
    ELSE IF ~has_atom(residue, "CB")
    THEN IF residue.resname = "GLY" THEN [label |-> "L"]
         ELSE [raise |-> "MissingInformationError"]
    ELSE IF ~has_atom(residue, "N") \/ ~has_atom(residue, "C")
    THEN [raise |-> "KeyError"]
    ELSE LET c_alpha == atom_of(residue, "CA").coord
             c_beta == atom_of(residue, "CB").coord
             n == atom_of(residue, "N").coord
             c == atom_of(residue, "C").coord
             assignment == Dot(Sub(c_alpha, c_beta), Cross(Sub(n, c_beta), Sub(c, c_beta)))
         IN  IF assignment > 0 THEN [label |-> "D"]
             ELSE [label |-> "L"]

\* lines 13-34: a label, or the exception raised
assign_chirality_amino_acid(residue) ==
    IF ~has_atom(residue, "CA") THEN [raise |-> "MissingInformationError"]
    ELSE IF ~has_atom(residue, "CB")
    THEN IF residue.resname = "GLY" THEN [label |-> "L"]
         ELSE [raise |-> "MissingInformationError"]
    ELSE IF ~has_atom(residue, "N") \/ ~has_atom(residue, "C")
    THEN [raise |-> "KeyError"]
    ELSE LET c_alpha == atom_of(residue, "CA").coord
             c_beta == atom_of(residue, "CB").coord
             n == atom_of(residue, "N").coord
             c == atom_of(residue, "C").coord
             assignment == Dot(Sub(c_alpha, c_beta), Cross(Sub(n, c_beta), Sub(c, c_beta)))
         IN  IF assignment > 0 THEN [label |-> "D"]
             ELSE IF assignment < 0 THEN [label |-> "L"]
             ELSE [raise |-> "ValueError"]

\* line 43: the mapping with both labels, each with an empty list
get_chirality_start ==
    /\ chir_pc = "start"
    /\ chir_pc' = "loop"
    /\ chirality' = [L |-> <<>>, D |-> <<>>]
    /\ chir_i' = 1
    /\ UNCHANGED <<outer_vars, struc, chir_result, clash_vars, amide_vars>>

\* mutant: the record is put at the front of its list
get_chirality_loop_prepend ==
    /\ chir_pc = "loop"
    /\ chir_i <= Len(struc)
    /\ LET got == assign_chirality_amino_acid(struc[chir_i])
       IN  IF "raise" \in DOMAIN got
           THEN /\ chir_pc' = "raised"
                /\ chir_result' = [exc |-> got.raise]
                /\ UNCHANGED <<chir_i, chirality>>
           ELSE /\ chirality' =
                     [chirality EXCEPT ![got.label] =
                         <<SingleIrregularity(chir_i, ChiralCenters[got.label])>> \o @]
                /\ chir_i' = chir_i + 1
                /\ UNCHANGED <<chir_pc, chir_result>>
    /\ UNCHANGED <<outer_vars, struc, clash_vars, amide_vars>>

\* lines 44-48: one iteration of the loop over the residues
get_chirality_loop ==
    /\ chir_pc = "loop"
    /\ chir_i <= Len(struc)
    /\ LET got == assign_chirality_amino_acid(struc[chir_i])
       IN  IF "raise" \in DOMAIN got
           THEN /\ chir_pc' = "raised"
                /\ chir_result' = [exc |-> got.raise]
                /\ UNCHANGED <<chir_i, chirality>>
           ELSE /\ chirality' =
                     [chirality EXCEPT ![got.label] =
                         Append(@, SingleIrregularity(chir_i, ChiralCenters[got.label]))]
                /\ chir_i' = chir_i + 1
                /\ UNCHANGED <<chir_pc, chir_result>>
    /\ UNCHANGED <<outer_vars, struc, clash_vars, amide_vars>>

\* line 49
get_chirality_return ==
    /\ chir_pc = "loop"
    /\ chir_i > Len(struc)
    /\ chir_pc' = "returned"
    /\ chir_result' = chirality
    /\ UNCHANGED <<outer_vars, struc, chir_i, chirality, clash_vars, amide_vars>>

NextChirality == get_chirality_start \/ get_chirality_loop \/ get_chirality_return

\* ------------------------------------------------ structures for chirality
\* CA at the corner of a frame, N and C along two axes in either order, CB
\* above the plane of the three, below it or in it; the residue at position
\* r is moved 380*(r-1) pm along x.
ChiralFrames ==
    { [CA |-> <<0, 0, 0>>, N |-> <<146, 0, 0>>, C |-> <<0, 152, 0>>],
      [CA |-> <<0, 0, 0>>, N |-> <<0, 146, 0>>, C |-> <<152, 0, 0>>] }

ChiralBetas == { <<-90, -90, 80>>, <<-90, -90, -80>>, <<-90, -90, 0>> }

ChiralChoice(resname, frame, beta, present) ==
    [resname |-> resname, frame |-> frame, beta |-> beta, present |-> present]

ChiralChoices ==
    {ChiralChoice("ALA", f, b, {"N", "CA", "C", "CB"}) : f \in ChiralFrames, b \in ChiralBetas}
    \cup {ChiralChoice(n, f, <<-90, -90, 80>>, p) :
            n \in {"GLY"}, f \in ChiralFrames, p \in {{"N", "CA", "C"}, {"N", "CA", "C", "CB"}}}
    \cup {ChiralChoice("ALA", CHOOSE f \in ChiralFrames : TRUE, <<-90, -90, 80>>, p) :
            p \in {{"N", "CA", "C"}, {"N", "C", "CB"}, {"CA", "C", "CB"}}}

ChiralResidue(r, choice) ==
    LET shift == <<380 * (r - 1), 0, 0>>
        at(v) == <<v[1] + shift[1], v[2] + shift[2], v[3] + shift[3]>>
        all == << [name |-> "N", element |-> "N", coord |-> at(choice.frame.N)],
                  [name |-> "CA", element |-> "C", coord |-> at(choice.frame.CA)],
                  [name |-> "C", element |-> "C", coord |-> at(choice.frame.C)],
                  [name |-> "CB", element |-> "C", coord |-> at(choice.beta)] >>
    IN  [resname |-> choice.resname, omega |-> 0,
         atoms |-> SelectSeq(all, LAMBDA atom : atom.name \in choice.present)]

\* residues of either name holding any of the four atoms
ChiralPartial ==
    {ChiralChoice(n, CHOOSE f \in ChiralFrames : TRUE, <<-90, -90, -80>>, p) :
        n \in {"GLY", "ALA"}, p \in SUBSET {"N", "CA", "C", "CB"}}

\* chains of the choices, and every partial residue alone and behind a
\* complete one
ChiralStructures ==
    {[r \in 1..Len(choices) |-> ChiralResidue(r, choices[r])] :
        choices \in UNION {[1..n -> ChiralChoices] : n \in 0..MaxRes}}
    \cup {<<ChiralResidue(1, c)>> : c \in ChiralPartial}
    \cup {<<ChiralResidue(1, ChiralChoice("ALA", CHOOSE f \in ChiralFrames : TRUE,
                                          <<-90, -90, -80>>, {"N", "CA", "C", "CB"})),
            ChiralResidue(2, c)>> : c \in ChiralPartial}

InitChirality == struc \in ChiralStructures /\ InitCalls /\ InitOuter

SpecChirality == InitChirality /\ [][NextChirality]_vars

\* ------------------------------------ the three classifiers on one structure
\* lines 86-87 of app.py call the classifiers of App.funcs on the same
\* structure; here they run in any interleaving.  The structures are small
\* in atoms: one residue of the chirality structures, a glycine before a
\* residue with the four atoms of one amide bond between them, and the
\* chains of the clash structures with CA and SG atoms.
AllStructures ==
    {<<ChiralResidue(1, c)>> : c \in ChiralChoices}
    \cup {AmideChain(<<AmideChoice("GLY", w, 133, {"CA", "C"}),
                       AmideChoice(n, 0, 133, {"N", "CA"})>>) :
            w \in {0, 3 * Sixth, 6 * Sixth}, n \in {"GLY", "PRO"}}
    \cup {[r \in 1..MaxRes |-> ClashResidue(r, "LYS", present[r])] :
            present \in {f \in [1..MaxRes -> SUBSET {"CA", "SG"}] : SumCard(f) <= MaxAtoms}}

InitAll == struc \in AllStructures /\ InitCalls /\ InitOuter

NextAll == NextClashes \/ NextAmide \/ NextChirality

SpecAll == InitAll /\ [][NextAll]_vars

\* ------------------------------------------------ claims about get_clashes
\* What the claims speak of, read off the structure itself.
HeavyOf(i) == {struc[i].atoms[k] : k \in {n \in 1..Len(struc[i].atoms) :
                                            struc[i].atoms[n].element # "H"}}

\* distance(x, y) < vdwRadius(x) + vdwRadius(y) - 0.5 A
TooClose(x, y) ==
    LET t == VDW_RADII[x.element] + VDW_RADII[y.element] - 50
    IN  t > 0 /\ Dist2(x.coord, y.coord) < t * t

\* distance(x, y) = vdwRadius(x) + vdwRadius(y) - 0.5 A + d
AtThresholdPlus(x, y, d) ==
    LET t == VDW_RADII[x.element] + VDW_RADII[y.element] - 50 + d
    IN  Dist2(x.coord, y.coord) = t * t

WithinQuery(x, y) == Dist2(x.coord, y.coord) <= 500 * 500

BothCYX(i, j) == struc[i].resname = "CYX" /\ struc[j].resname = "CYX"

Reported(i, j) ==
    \E k \in 1..Len(clash_result.VDW) :
        clash_result.VDW[k].res_a = i /\ clash_result.VDW[k].res_b = j

ResiduePairs == {p \in (1..Len(struc)) \X (1..Len(struc)) : p[1] < p[2]}

\* the backbone of the specification: N, CA, C, O, and CD in a proline
SpecBackbone(i, x) ==
    x.name \in {"N", "CA", "C", "O"} \/ (x.name = "CD" /\ struc[i].resname = "PRO")

\* C1: a residue pair is reported only if two of its heavy atoms, one from
\* each residue, are closer than r1 + r2 - 0.5 A (strictly: a distance equal
\* to the threshold, or 0.1 A above it, reports nothing), and a pair of
\* residues that are neither neighbours nor both CYX is always reported when
\* it has such atoms within the query radius.
C1_ClashThreshold ==
    clash_pc = "returned" =>
        /\ \A k \in 1..Len(clash_result.VDW) :
              \E x \in HeavyOf(clash_result.VDW[k].res_a),
                 y \in HeavyOf(clash_result.VDW[k].res_b) : TooClose(x, y)
        /\ \A p \in ResiduePairs :
              (/\ p[2] - p[1] # 1
               /\ ~BothCYX(p[1], p[2])
               /\ \E x \in HeavyOf(p[1]), y \in HeavyOf(p[2]) :
                     TooClose(x, y) /\ WithinQuery(x, y))
              => Reported(p[1], p[2])

\* C1 witness: a residue pair is reported for atoms 0.1 A under their
\* threshold ((r1+r2) - 0.6) and for nothing else, while two other atoms of
\* the same residues sit 0.1 A above theirs ((r1+r2) - 0.4).
C1_Witness ==
    /\ clash_pc = "returned"
    /\ \E p \in ResiduePairs :
          /\ Reported(p[1], p[2])
          /\ \E x \in HeavyOf(p[1]), y \in HeavyOf(p[2]) : AtThresholdPlus(x, y, -10)
          /\ \E x \in HeavyOf(p[1]), y \in HeavyOf(p[2]) : AtThresholdPlus(x, y, 10)
          /\ \A x \in HeavyOf(p[1]), y \in HeavyOf(p[2]) :
                TooClose(x, y) => AtThresholdPlus(x, y, -10)

\* C5 (as the specification defines backbone): a reported pair of neighbour
\* residues has two atoms too close of which exactly one is a backbone atom.
C5_AdjacentOnlyMixed ==
    clash_pc = "returned" =>
        \A k \in 1..Len(clash_result.VDW) :
            LET i == clash_result.VDW[k].res_a
                j == clash_result.VDW[k].res_b
            IN  j - i = 1 =>
                  \E x \in HeavyOf(i), y \in HeavyOf(j) :
                      TooClose(x, y) /\ (SpecBackbone(i, x) # SpecBackbone(j, y))

\* C6: a CD atom is a backbone atom in a proline only; the CD of any other
\* residue is a side-chain atom, so its contact with a backbone atom of the
\* neighbour residue passes the adjacency filter and is reported.
C6_CDBackboneOnlyInProline ==
    clash_pc = "returned" =>
        \A p \in ResiduePairs :
            (/\ p[2] - p[1] = 1
             /\ ~BothCYX(p[1], p[2])
             /\ \E x \in HeavyOf(p[1]), y \in HeavyOf(p[2]) :
                   /\ x.name = "CD" \/ y.name = "CD"
                   /\ TooClose(x, y)
                   /\ SpecBackbone(p[1], x) # SpecBackbone(p[2], y))
            => Reported(p[1], p[2])

\* C7: the result has the single key VDW; its records have distinct residues
\* in increasing order and severity 1, and the list is strictly increasing
\* by first and then second residue, so no residue pair appears twice.
C7_OneRecordPerPair ==
    clash_pc = "returned" =>
        /\ DOMAIN clash_result = {"VDW"}
        /\ \A k \in 1..Len(clash_result.VDW) :
              /\ clash_result.VDW[k].res_a < clash_result.VDW[k].res_b
              /\ clash_result.VDW[k].score = 1
        /\ \A k, l \in 1..Len(clash_result.VDW) :
              k < l =>
                \/ clash_result.VDW[k].res_a < clash_result.VDW[l].res_a
                \/ /\ clash_result.VDW[k].res_a = clash_result.VDW[l].res_a
                   /\ clash_result.VDW[k].res_b < clash_result.VDW[l].res_b
        /\ \A i \in 1..Len(struc) : ~Reported(i, i)

\* three records in one result, one of them for residues that are not
\* neighbours: the order of the list is exercised
C7_ThreeRecords ==
    /\ clash_pc = "returned"
    /\ Len(clash_result.VDW) = 3
    /\ Reported(1, 3)

\* C7 witness: one record for a residue pair with two atom pairs too close,
\* and two atoms of one residue closer than their threshold, not reported.
C7_Witness ==
    /\ clash_pc = "returned"
    /\ Len(clash_result.VDW) = 1
    /\ \E p \in ResiduePairs :
          /\ Reported(p[1], p[2])
          /\ Cardinality({xy \in HeavyOf(p[1]) \X HeavyOf(p[2]) :
                             TooClose(xy[1], xy[2])}) = 2
    /\ \E i \in 1..Len(struc) :
          \E x, y \in HeavyOf(i) : x # y /\ TooClose(x, y)

\* C8: no record pairs two CYX residues, and a pair with one CYX residue
\* only is reported as any other pair is.
C8_DisulfideSuppressed ==
    clash_pc = "returned" =>
        /\ \A k \in 1..Len(clash_result.VDW) :
              ~BothCYX(clash_result.VDW[k].res_a, clash_result.VDW[k].res_b)
        /\ \A p \in ResiduePairs :
              (/\ (struc[p[1]].resname = "CYX") # (struc[p[2]].resname = "CYX")
               /\ \E x \in HeavyOf(p[1]), y \in HeavyOf(p[2]) :
                     /\ TooClose(x, y)
                     /\ p[2] - p[1] = 1 => {x.name, y.name} = {"CA", "SG"})
              => Reported(p[1], p[2])

\* C8 witness: two CYX residues with sulfur atoms too close, not reported,
\* in a call that reports another pair holding one of them.
C8_Witness ==
    /\ clash_pc = "returned"
    /\ \E p \in ResiduePairs :
          /\ BothCYX(p[1], p[2])
          /\ p[2] - p[1] # 1
          /\ \E x \in HeavyOf(p[1]), y \in HeavyOf(p[2]) :
                x.name = "SG" /\ y.name = "SG" /\ TooClose(x, y)
          /\ ~Reported(p[1], p[2])
    /\ Len(clash_result.VDW) > 0

\* -------------------------------------------- claims about get_amid_stereo
\* every record of the returned mapping, with the label it is filed under
AmideRecords ==
    UNION {{<<l, k>> : k \in 1..Len(amide_result[l])} : l \in DOMAIN amide_result}

\* the records filed for the pair (i, i+1)
RecordsOf(i) ==
    {lk \in AmideRecords : /\ amide_result[lk[1]][lk[2]].res_a = i
                           /\ amide_result[lk[1]][lk[2]].res_b = i + 1}

LabelsOf(i) == {lk[1] : lk \in RecordsOf(i)}

Bonds == 1..(Len(struc) - 1)

NamesOf(i) == {struc[i].atoms[k].name : k \in 1..Len(struc[i].atoms)}

\* head has CA and C, tail has N and CA
Complete(i) == {"CA", "C"} \subseteq NamesOf(i) /\ {"N", "CA"} \subseteq NamesOf(i + 1)

CoordOf(i, name) ==
    struc[i].atoms[CHOOSE k \in 1..Len(struc[i].atoms) : struc[i].atoms[k].name = name].coord

\* squared distance of the C of residue i and the N of residue i+1
CN2(i) == Dist2(CoordOf(i, "C"), CoordOf(i + 1, "N"))

\* the dihedral of the pair (i, i+1) normalized into [0, 2 pi)
Theta(i) == IF struc[i].omega < 0 THEN struc[i].omega + 12 * Sixth ELSE struc[i].omega

InTrans(t) == 5 * Sixth <= t /\ t <= 7 * Sixth

InCis(t) == (0 <= t /\ t <= Sixth) \/ (11 * Sixth <= t /\ t < 12 * Sixth)

\* C2: with all four atoms, a C-N distance of at most 2 A and a tail that is
\* not a proline, the pair is filed once, under TRANS when theta is in
\* [5pi/6, 7pi/6], under CIS when theta is in [0, pi/6] or [11pi/6, 2pi),
\* and under NON_PLANAR for every other angle.
C2_LabelByAngle ==
    amide_pc = "returned" =>
        \A i \in Bonds :
            (Complete(i) /\ CN2(i) <= 200 * 200 /\ struc[i + 1].resname # "PRO") =>
                /\ Cardinality(RecordsOf(i)) = 1
                /\ LabelsOf(i) = {IF InTrans(Theta(i)) THEN "TRANS"
                                  ELSE IF InCis(Theta(i)) THEN "CIS"
                                  ELSE "NON_PLANAR"}

\* C2 witness: a raw angle of -5pi/6, which is 7pi/6 normalized, the closed
\* end of the TRANS interval, at a C-N distance of exactly 2 A
C2_Witness ==
    /\ amide_pc = "returned"
    /\ \E i \in Bonds :
          /\ struc[i].omega = -5 * Sixth
          /\ CN2(i) = 200 * 200
          /\ struc[i + 1].resname # "PRO"
          /\ LabelsOf(i) = {"TRANS"}

\* C4 as stated: a call on a structure without a missing atom returns, and
\* what it returns holds residueCount - 1 records.
C4_CountAnyStructure ==
    (amide_pc \in {"returned", "raised"} /\ \A i \in Bonds : Complete(i)) =>
        /\ amide_pc = "returned"
        /\ Cardinality(AmideRecords) = Len(struc) - 1

\* C4 amended: on a structure of at least one residue without a missing
\* atom the call returns residueCount - 1 records, exactly one for every
\* pair (i, i+1), and none for anything else.
C4_CountNonEmpty ==
    (/\ amide_pc \in {"returned", "raised"}
     /\ Len(struc) >= 1
     /\ \A i \in Bonds : Complete(i)) =>
        /\ amide_pc = "returned"
        /\ Cardinality(AmideRecords) = Len(struc) - 1
        /\ \A i \in Bonds : Cardinality(RecordsOf(i)) = 1

\* C4 witness: three residues, two records, under two labels
C4_Witness ==
    /\ amide_pc = "returned"
    /\ Len(struc) = 3
    /\ Cardinality(AmideRecords) = 2
    /\ LabelsOf(1) # LabelsOf(2)

\* what get_amid_stereo files for a pair of residues
Filed(head, tail) ==
    LET got == assign_stereo(head, tail)
    IN  IF "label" \in DOMAIN got THEN got.label
        ELSE IF got.raise = "ProlineException" THEN "CIS_PROLINE"
        ELSE got.raise

Renamed(residue, resname) == [residue EXCEPT !.resname = resname]

\* C9: a bonded pair with a cis dihedral and a proline tail is filed under
\* CIS_PROLINE and never under CIS; ProlineException never leaves the call;
\* renaming the head never changes what is filed, and renaming the tail
\* changes it only for a bonded pair in the cis range.
C9_CisProline ==
    /\ amide_pc = "raised" => amide_result.exc # "ProlineException"
    /\ amide_pc = "returned" =>
         \A i \in Bonds :
             (/\ Complete(i) /\ CN2(i) <= 200 * 200
              /\ InCis(Theta(i)) /\ struc[i + 1].resname = "PRO")
             => LabelsOf(i) = {"CIS_PROLINE"}
    /\ amide_pc \in {"returned", "raised"} =>
       \A i \in Bonds : \A n \in {"ALA", "PRO", "GLY"} :
         /\ Filed(Renamed(struc[i], n), struc[i + 1]) = Filed(struc[i], struc[i + 1])
         /\ (Complete(i) /\ ~(CN2(i) <= 200 * 200 /\ InCis(Theta(i))))
            => Filed(struc[i], Renamed(struc[i + 1], n)) = Filed(struc[i], struc[i + 1])

\* C9 witness: two bonded cis pairs in one chain, filed CIS_PROLINE for the
\* proline tail and CIS for the other, the proline being the head of the
\* second
C9_Witness ==
    /\ amide_pc = "returned"
    /\ Len(struc) = 3
    /\ struc[2].resname = "PRO" /\ struc[3].resname # "PRO"
    /\ \A i \in Bonds : CN2(i) <= 200 * 200 /\ InCis(Theta(i))
    /\ LabelsOf(1) = {"CIS_PROLINE"}
    /\ LabelsOf(2) = {"CIS"}

\* C10: with all four atoms and a C-N distance above 2 A the pair is filed
\* under TRANS, whatever the angle and the tail; a distance of exactly 2 A
\* is no chain break, its pair being filed by its angle.
C10_ChainBreak ==
    amide_pc = "returned" =>
        \A i \in Bonds :
            /\ (Complete(i) /\ CN2(i) > 200 * 200) => LabelsOf(i) = {"TRANS"}
            /\ (Complete(i) /\ CN2(i) = 200 * 200 /\ ~InTrans(Theta(i)))
               => "TRANS" \notin LabelsOf(i)

\* C10 witness: a proline tail behind a broken link with a cis angle, TRANS
C10_Witness ==
    /\ amide_pc = "returned"
    /\ \E i \in Bonds :
          /\ CN2(i) > 200 * 200
          /\ InCis(Theta(i))
          /\ struc[i + 1].resname = "PRO"
          /\ LabelsOf(i) = {"TRANS"}

\* ---------------------------------------------- claims about get_chirality
HasAll(i) == {"CA", "CB", "N", "C"} \subseteq NamesOf(i)

\* v = (CA - CB) . [(N - CB) x (C - CB)], written out by components
SignedVolume(i) ==
    LET a == Sub(CoordOf(i, "CA"), CoordOf(i, "CB"))
        b == Sub(CoordOf(i, "N"), CoordOf(i, "CB"))
        c == Sub(CoordOf(i, "C"), CoordOf(i, "CB"))
    IN  a[1] * (b[2] * c[3] - b[3] * c[2])
        + a[2] * (b[3] * c[1] - b[1] * c[3])
        + a[3] * (b[1] * c[2] - b[2] * c[1])

\* the positions of the residues filed under a label so far
FiledUnder(label) == {chirality[label][k].residue : k \in 1..Len(chirality[label])}

\* C3: a residue with CA, CB, N and C that the loop has passed is filed
\* under D when v > 0 and under L when v < 0, and v is not 0; at v = 0 the
\* residue is filed under no label and the call ends with the error of
\* assign_chirality_amino_acid instead of a mapping.
C3_SignOfVolume ==
    /\ chir_pc \in {"loop", "returned"} =>
          \A i \in 1..(chir_i - 1) :
              HasAll(i) =>
                 /\ SignedVolume(i) > 0 => (i \in FiledUnder("D") /\ i \notin FiledUnder("L"))
                 /\ SignedVolume(i) < 0 => (i \in FiledUnder("L") /\ i \notin FiledUnder("D"))
                 /\ SignedVolume(i) # 0
    /\ (chir_pc = "raised" /\ HasAll(chir_i)) =>
          /\ SignedVolume(chir_i) = 0
          /\ chir_result = [exc |-> "ValueError"]
          /\ chir_i \notin FiledUnder("D") \cup FiledUnder("L")
    /\ chir_pc = "returned" => chir_result = chirality

\* C3 witness: a D and an L residue filed, then a coplanar third residue
\* ends the call with the error
C3_Witness ==
    /\ chir_pc = "raised"
    /\ chir_result = [exc |-> "ValueError"]
    /\ chir_i = 3
    /\ FiledUnder("D") = {1}
    /\ FiledUnder("L") = {2}
    /\ HasAll(1) /\ HasAll(2) /\ HasAll(3)
    /\ SignedVolume(1) > 0 /\ SignedVolume(2) < 0 /\ SignedVolume(3) = 0


\* a glycine without CB
GlyNoCB(i) == struc[i].resname = "GLY" /\ "CB" \notin NamesOf(i)

\* a required atom is absent: CA, N or C, or CB outside glycine
MissingRequired(i) ==
    \/ ~({"CA", "N", "C"} \subseteq NamesOf(i))
    \/ ("CB" \notin NamesOf(i) /\ struc[i].resname # "GLY")

\* the residue the failed call was looking at
RaisedAt(i) == chir_pc = "raised" /\ chir_i = i

\* C11 as stated: a glycine without CB is filed under L and the call never
\* fails on it, whichever of CA, N and C it holds.
C11_GlycineAlwaysL ==
    \A i \in 1..Len(struc) :
        GlyNoCB(i) =>
            /\ ~RaisedAt(i)
            /\ (chir_pc \in {"loop", "returned"} /\ i < chir_i) => i \in FiledUnder("L")

\* C11 amended: a glycine without CB that holds CA is filed under L and the
\* call never fails on it, whichever of N and C it holds; one that lacks CA
\* too ends the call with MissingInformationError.
C11_GlycineWithCA ==
    \A i \in 1..Len(struc) :
        GlyNoCB(i) =>
            /\ "CA" \in NamesOf(i) =>
                 /\ ~RaisedAt(i)
                 /\ (chir_pc \in {"loop", "returned"} /\ i < chir_i) =>
                        (i \in FiledUnder("L") /\ i \notin FiledUnder("D"))
            /\ "CA" \notin NamesOf(i) =>
                 /\ chir_pc \in {"loop", "returned"} => i >= chir_i
                 /\ RaisedAt(i) => chir_result = [exc |-> "MissingInformationError"]

\* C11 witness: a glycine holding CA alone, filed under L by a call that
\* returned
C11_Witness ==
    /\ chir_pc = "returned"
    /\ \E i \in 1..Len(struc) :
          /\ struc[i].resname = "GLY"
          /\ NamesOf(i) = {"CA"}
          /\ i \in FiledUnder("L")

\* C13: a residue with a required atom absent is never passed by the loop,
\* and the call that fails on it fails with MissingInformationError.
C13_MissingIsMissingInformation ==
    \A i \in 1..Len(struc) :
        MissingRequired(i) =>
            /\ chir_pc \in {"loop", "returned"} => i >= chir_i
            /\ RaisedAt(i) => chir_result = [exc |-> "MissingInformationError"]

\* C14 (get_chirality): a finished call on a structure with a residue that
\* lacks a required atom has raised MissingInformationError.
C14_MissingAtomIsFatal ==
    (chir_pc \in {"returned", "raised"} /\ \E i \in 1..Len(struc) : MissingRequired(i)) =>
        /\ chir_pc = "raised"
        /\ chir_result = [exc |-> "MissingInformationError"]

\* the residues of a list of records, in the order of the list
ResiduesOf(records) == [k \in 1..Len(records) |-> records[k].residue]

\* C18: a returned mapping has the keys L and D and nothing else, the two
\* lists hold one record for every residue between them, each in the
\* order of the residues, with the score of its label, D above L.
C18_OneRecordPerResidue ==
    chir_pc = "returned" =>
        /\ DOMAIN chir_result = {"L", "D"}
        /\ Len(chir_result.L) + Len(chir_result.D) = Len(struc)
        /\ \A i \in 1..Len(struc) :
              Cardinality({lk \in {"L", "D"} \X (1..Len(struc)) :
                              /\ lk[2] <= Len(chir_result[lk[1]])
                              /\ chir_result[lk[1]][lk[2]].residue = i}) = 1
        /\ \A l \in {"L", "D"} : \A k \in 1..Len(chir_result[l]) :
              /\ k > 1 => chir_result[l][k - 1].residue < chir_result[l][k].residue
              /\ chir_result[l][k].score = (IF l = "D" THEN 10 ELSE 0)

\* C18 witness: three residues, two of them D, and a call on one residue
\* whose D list is empty is covered by the formula
C18_Witness ==
    /\ chir_pc = "returned"
    /\ Len(struc) = 3
    /\ ResiduesOf(chir_result.D) = <<1, 3>>
    /\ ResiduesOf(chir_result.L) = <<2>>


\* ------------------------------------------- claims about missing atoms
\* the required atoms the pair (i, i+1) lacks: CA and C of the head, N and
\* CA of the tail
MissingOfPair(i) ==
    ({"CA", "C"} \ NamesOf(i)) \cup ({"N", "CA"} \ NamesOf(i + 1))

\* C12: a pair that lacks one of its four atoms is never filed, the call
\* that reaches it ends with MissingInformationError, and the error names
\* exactly the required atoms that are missing.
C12_MissingAtomsNamed ==
    /\ amide_pc \in {"loop", "returned"} =>
          \A i \in Bonds : ~Complete(i) => i >= header
    /\ (amide_pc = "raised" /\ Len(struc) > 0) =>
          /\ ~Complete(header)
          /\ amide_result.exc = "MissingInformationError"
          /\ amide_result.diff = MissingOfPair(header)


\* ------------------------------------------ claims about the elements
AllAtomsOf(s, i) == {s[i].atoms[k] : k \in 1..Len(s[i].atoms)}

UnknownElement(x) == x.element # "H" /\ x.element \notin DOMAIN VDW_RADII

HasUnknown == \E i \in 1..Len(struc) : \E x \in AllAtomsOf(struc, i) : UnknownElement(x)

\* C15: a call on a structure with a heavy atom of an element without a
\* radius never returns.
C15_UnknownElementFatal == clash_pc = "returned" => ~HasUnknown

\* the loop of get_clashes run over the candidate pairs in increasing
\* order, from the dict cl: the dict it ends with, or the error
RECURSIVE LoopInOrder(_, _)
LoopInOrder(todo, cl) ==
    IF todo = {} THEN [clashes |-> cl]
    ELSE LET p == CHOOSE q \in todo :
                      \A o \in todo : q[1] < o[1] \/ (q[1] = o[1] /\ q[2] <= o[2])
             res_a == atom_to_residue[p[1]]
             res_b == atom_to_residue[p[2]]
         IN  IF /\ res_a # res_b
                /\ (res_a \notin DOMAIN cl \/ res_b \notin cl[res_a])
                /\ adjacent_ok(res_a, res_b, p[1], p[2])
             THEN IF UnknownElement(atoms[p[1]]) \/ UnknownElement(atoms[p[2]])
                  THEN [exc |-> "KeyError"]
                  ELSE LoopInOrder(todo \ {p},
                         IF ~is_clash(res_a, res_b, p[1], p[2]) THEN cl
                         ELSE IF res_a \in DOMAIN cl
                              THEN [cl EXCEPT ![res_a] = @ \cup {res_b}]
                              ELSE cl @@ (res_a :> {res_b}))
             ELSE LoopInOrder(todo \ {p}, cl)

\* C16 (get_clashes): the outcome of a finished call is the outcome of the
\* loop run in increasing order of the candidate pairs, whatever order the
\* call took them in.
C16_OrderIndependent ==
    (clash_pc \in {"returned", "raised"} /\ atoms # <<>>) =>
        LET ref == LoopInOrder(query_pairs(atoms, 500), <<>>)
        IN  IF clash_pc = "raised"
            THEN "exc" \in DOMAIN ref /\ ref.exc = clash_result.exc
            ELSE "clashes" \in DOMAIN ref /\ ref.clashes = clashes

\* the structure without its hydrogen atoms
StripH(s) ==
    [i \in 1..Len(s) |->
        [s[i] EXCEPT !.atoms = SelectSeq(@, LAMBDA atom : atom.element # "H")]]

\* the residue pairs of s that hold two atoms, all atoms of s counted,
\* which pass the filters of get_clashes and are closer than their threshold
ClashingPairs(s) ==
    {p \in (1..Len(s)) \X (1..Len(s)) :
        /\ p[1] < p[2]
        /\ ~(s[p[1]].resname = "CYX" /\ s[p[2]].resname = "CYX")
        /\ \E x \in AllAtomsOf(s, p[1]), y \in AllAtomsOf(s, p[2]) :
              /\ WithinQuery(x, y)
              /\ p[2] - p[1] # 1 \/ ((x.name \in backbone) # (y.name \in backbone))
              /\ TooClose(x, y)}

\* C19: the atoms get_clashes works on are the atoms that are not
\* hydrogens, each under the residue that holds it, and what it returns is
\* what the structure without its hydrogens gives.
C19_HydrogensIgnored ==
    /\ clash_pc # "start" =>
          /\ Len(atoms) = SumCard([i \in 1..Len(struc) |-> AllAtomsOf(StripH(struc), i)])
          /\ \A k \in 1..Len(atoms) :
                /\ atoms[k].element # "H"
                /\ atoms[k] \in AllAtomsOf(struc, atom_to_residue[k])
    /\ (clash_pc = "returned" /\ ~HasUnknown) =>
          {<<clash_result.VDW[k].res_a, clash_result.VDW[k].res_b>> :
              k \in 1..Len(clash_result.VDW)} = ClashingPairs(StripH(struc))
    /\ (clash_pc = "raised" /\ ~HasUnknown) => atoms = heavy_atoms(StripH(struc))

\* C19 witness: a hydrogen 1.45 A from the CA of the next residue, an atom
\* pair far under its threshold of 2.3 A, in a call that returned one
\* clash, of other residues
C19_Witness ==
    /\ clash_pc = "returned"
    /\ \E i \in 1..(Len(struc) - 1) :
          /\ \E x \in AllAtomsOf(struc, i), y \in AllAtomsOf(struc, i + 1) :
                x.element = "H" /\ y.name = "CA" /\ TooClose(x, y)
          /\ ~Reported(i, i + 1)
    /\ Len(clash_result.VDW) = 1


\* -------------------------------------- claims about the classifiers together
\* get_amid_stereo run alone on s from the pair (i, i+1) on, acc being the
\* mapping so far: the mapping it returns, or the error
RECURSIVE AmideAlone(_, _, _)
AmideAlone(s, i, acc) ==
    IF Len(s) = 0 THEN [exc |-> "StopIteration"]
    ELSE IF i >= Len(s) THEN acc
    ELSE LET got == assign_stereo(s[i], s[i + 1])
             label == IF "label" \in DOMAIN got THEN got.label ELSE "CIS_PROLINE"
             record == CoupleIrregularity(i, i + 1, AmideBonds[label])
         IN  IF "raise" \in DOMAIN got /\ got.raise # "ProlineException"
             THEN [exc |-> got.raise, diff |-> got.diff]
             ELSE AmideAlone(s, i + 1,
                    IF label \in DOMAIN acc THEN [acc EXCEPT ![label] = Append(@, record)]
                    ELSE acc @@ (label :> <<record>>))

\* get_chirality run alone on s from residue i on
RECURSIVE ChiralityAlone(_, _, _)
ChiralityAlone(s, i, acc) ==
    IF i > Len(s) THEN acc
    ELSE LET got == assign_chirality_amino_acid(s[i])
         IN  IF "raise" \in DOMAIN got THEN [exc |-> got.raise]
             ELSE ChiralityAlone(s, i + 1,
                    [acc EXCEPT ![got.label] =
                        Append(@, SingleIrregularity(i, ChiralCenters[got.label]))])

\* what the three calls have come to is what each comes to alone
ResultsAsAlone ==
    /\ amide_pc \in {"returned", "raised"} => amide_result = AmideAlone(struc, 1, <<>>)
    /\ chir_pc \in {"returned", "raised"} =>
          chir_result = ChiralityAlone(struc, 1, [L |-> <<>>, D |-> <<>>])
    /\ clash_pc = "raised" => clash_result = [exc |-> "ValueError"] /\ atoms = <<>>
    /\ clash_pc = "returned" =>
          /\ {<<clash_result.VDW[k].res_a, clash_result.VDW[k].res_b>> :
                 k \in 1..Len(clash_result.VDW)} = ClashingPairs(StripH(struc))
          /\ LoopInOrder(query_pairs(atoms, 500), <<>>) = [clashes |-> clashes]

\* C17: under every interleaving of the three calls on one structure each
\* comes to the outcome it comes to alone, and no step changes the
\* structure.
C17_NoInterference == [](ResultsAsAlone) /\ [][struc' = struc]_vars

\* C17 witness: get_amid_stereo has run from start to return, with a record
\* filed, while get_chirality and get_clashes were both inside their loops
C17_Witness ==
    /\ amide_pc = "returned"
    /\ Cardinality(AmideRecords) = 1
    /\ chir_pc = "loop" /\ chir_i = 2
    /\ clash_pc = "loop" /\ close_points # {}


\* ------------------------------------------------ claims about the wrap
\* the residue with its angle moved by k full turns
Turned(residue, k) == [residue EXCEPT !.omega = @ + k * 12 * Sixth]

\* C20: a pair is filed under the label its angle gets with a full turn
\* added or taken away, and an angle one grid step under 0, or under 2 pi,
\* is filed as cis (CIS, or CIS_PROLINE before a proline).
C20_WrapInvariant ==
    amide_pc = "returned" =>
        \A i \in Bonds :
            Complete(i) =>
                /\ \A k \in {-1, 1} :
                      LabelsOf(i) = {Filed(Turned(struc[i], k), struc[i + 1])}
                /\ (struc[i].omega \in {-1, 12 * Sixth - 1} /\ CN2(i) <= 200 * 200) =>
                      LabelsOf(i) = {IF struc[i + 1].resname = "PRO"
                                     THEN "CIS_PROLINE" ELSE "CIS"}

\* C20 witness: the angle one step under 0, filed under CIS
C20_Witness ==
    /\ amide_pc = "returned"
    /\ Len(struc) = 2
    /\ struc[1].omega = -1
    /\ LabelsOf(1) = {"CIS"}


\* ------------------------------------------------------------------- C21
\* N, CA and C of the residue share their z coordinate
PlaneIsZ(residue) ==
    /\ {"N", "CA", "C", "CB"} \subseteq atom_names(residue)
    /\ atom_of(residue, "N").coord[3] = atom_of(residue, "CA").coord[3]
    /\ atom_of(residue, "C").coord[3] = atom_of(residue, "CA").coord[3]

\* the residue with CB reflected through the plane z = z(CA)
Mirrored(residue) ==
    LET z0 == atom_of(residue, "CA").coord[3]
    IN  [residue EXCEPT !.atoms =
            [k \in DOMAIN residue.atoms |->
                IF residue.atoms[k].name = "CB"
                THEN [residue.atoms[k] EXCEPT
                        !.coord = <<@[1], @[2], 2 * z0 - @[3]>>]
                ELSE residue.atoms[k]]]

OtherLabel(label) == IF label = "D" THEN "L" ELSE "D"

\* C21: a residue with all four atoms that get_chirality has filed under a
\* label is given the other label once CB is reflected through the plane of
\* CA, N and C, and the label it was filed under once CB is reflected twice.
C21_MirrorSwapsLabel ==
    chir_pc \in {"loop", "returned"} =>
        \A label \in {"L", "D"} : \A i \in FiledUnder(label) :
            (HasAll(i) /\ PlaneIsZ(struc[i])) =>
                /\ Mirrored(struc[i]) # struc[i]
                /\ assign_chirality_amino_acid(Mirrored(struc[i]))
                       = [label |-> OtherLabel(label)]
                /\ assign_chirality_amino_acid(Mirrored(Mirrored(struc[i])))
                       = [label |-> label]

\* C21 witness: the call returned with a residue under D and one under L,
\* each with all four atoms and CB off the plane
C21_Witness ==
    /\ chir_pc = "returned"
    /\ \E i \in FiledUnder("D") : HasAll(i) /\ PlaneIsZ(struc[i])
          /\ assign_chirality_amino_acid(Mirrored(struc[i])) = [label |-> "L"]
    /\ \E j \in FiledUnder("L") : HasAll(j) /\ PlaneIsZ(struc[j])
          /\ assign_chirality_amino_acid(Mirrored(struc[j])) = [label |-> "D"]


\* ================================================================ app.py
\* The classifiers as App.process_structure calls them: one call, from the
\* structure to the mapping it returns or the exception it raises.

\* chirality.py lines 37-49
get_chirality(structure) == ChiralityAlone(structure, 1, [L |-> <<>>, D |-> <<>>])

\* amide_bond.py lines 13-28
get_amid_stereo(structure) == AmideAlone(structure, 1, <<>>)

\* clashes.py lines 19-62, for atoms whose elements are in VDW_RADII: the
\* residue pairs left by the filters of the loop, whatever its order, sorted
get_clashes(structure) ==
    LET points == heavy_atoms(structure)
        residue_of == heavy_atom_residues(structure)
        clashing ==
            {p \in query_pairs(points, 500) :
                LET res_a == residue_of[p[1]]
                    res_b == residue_of[p[2]]
                    combined_radii == VDW_RADII[points[p[1]].element]
                                      + VDW_RADII[points[p[2]].element]
                IN  /\ res_a # res_b
                    /\ \/ res_b - res_a # 1
                       \/ (points[p[1]].name \in backbone) # (points[p[2]].name \in backbone)
                    /\ DistLess(Dist2(points[p[1]].coord, points[p[2]].coord),
                                combined_radii - 50)
                    /\ ~(structure[res_a].resname = "CYX" /\ structure[res_b].resname = "CYX")}
        keys == sorted({residue_of[p[1]] : p \in clashing})
        values(a) == sorted({residue_of[p[2]] : p \in {q \in clashing : residue_of[q[1]] = a}})
    IN  IF points = <<>> THEN [exc |-> "ValueError"]
        ELSE [VDW |-> Flatten([i \in 1..Len(keys) |->
                        [j \in 1..Len(values(keys[i])) |->
                            CoupleIrregularity(keys[i], values(keys[i])[j], Clashes.VDW)]])]

\* ------------------------------------------------ structures for the App
\* A residue at position r holds N, CA and C in the plane z = 0, CB above
\* or below it and, when asked for, a side-chain sulfur 1 A from the N of
\* the residue that follows; the residues are 3.33 A apart, so the C of one
\* is 1.33 A from the N of the next and no other atoms come close.
AppChoice(resname, omega, beta, present) ==
    [resname |-> resname, omega |-> omega, beta |-> beta, present |-> present]

AppResidue(r, choice) ==
    LET base == 333 * (r - 1)
        all == << [name |-> "N", element |-> "N", coord |-> <<base, 0, 0>>],
                  [name |-> "CA", element |-> "C", coord |-> <<base + 100, 100, 0>>],
                  [name |-> "C", element |-> "C", coord |-> <<base + 200, 0, 0>>],
                  [name |-> "CB", element |-> "C", coord |-> <<base + 100, 250, choice.beta>>],
                  [name |-> "SG", element |-> "S", coord |-> <<base + 333, 100, 0>>] >>
    IN  [resname |-> choice.resname, omega |-> choice.omega,
         atoms |-> SelectSeq(all, LAMBDA atom : atom.name \in choice.present)]

AppChain(choices) == [r \in 1..Len(choices) |-> AppResidue(r, choices[r])]

\* a cis residue with the sulfur, and with it a trans residue of the other
\* hand without the sulfur
AppCis == AppChoice("ALA", 0, -80, {"N", "CA", "C", "CB", "SG"})

AppRegular == {AppChoice("ALA", 6 * Sixth, 80, {"N", "CA", "C", "CB"}), AppCis}

\* a proline, a twisted bond, a glycine, and residues without CB, without
\* N, with CA only and without any heavy atom, each alone and behind a cis
\* residue
AppSpecial ==
    {AppChoice("PRO", 6 * Sixth, 80, {"N", "CA", "C", "CB"}),
     AppChoice("ALA", 3 * Sixth, 80, {"N", "CA", "C", "CB"}),
     AppChoice("GLY", 6 * Sixth, 80, {"N", "CA", "C"}),
     AppChoice("ALA", 6 * Sixth, 80, {"N", "CA", "C"}),
     AppChoice("ALA", 6 * Sixth, 80, {"CA", "C", "CB"}),
     AppChoice("GLY", 6 * Sixth, 80, {"CA"}),
     AppChoice("GLY", 6 * Sixth, 80, {})}

AppStructures ==
    {AppChain(choices) : choices \in UNION {[1..n -> AppRegular] : n \in 0..MaxRes}}
    \cup {AppChain(<<c>>) : c \in AppSpecial}
    \cup {AppChain(<<AppCis, c>>) : c \in AppSpecial}
    \cup {AppChain(<<AppCis, AppCis, AppChoice("PRO", 6 * Sixth, 80, {"N", "CA", "C", "CB"})>>)}

\* lines 36, 42, 48: what the functions App.__init__ puts into self.funcs
\* come to on each of the structures, worked out once
FuncsOnStructures ==
    [func \in {"get_chirality", "get_amide_stereo", "get_clashes"} |->
        [structure \in AppStructures |->
            IF func = "get_chirality" THEN get_chirality(structure)
            ELSE IF func = "get_amide_stereo" THEN get_amid_stereo(structure)
            ELSE get_clashes(structure)]]

\* line 87: func(structure)
call_func(func, structure) == FuncsOnStructures[func][structure]

\* lines 85-87: structure_data.update(func(structure)) for each func in turn;
\* the first exception ends the loop, `done` being the local dict then
RECURSIVE update_all(_, _, _)
update_all(fs, structure, structure_data) ==
    IF fs = <<>> THEN [data |-> structure_data]
    ELSE LET got == call_func(Head(fs), structure)
         IN  IF "exc" \in DOMAIN got
             THEN [exc |-> got.exc, done |-> structure_data]
             ELSE update_all(Tail(fs), structure, got @@ structure_data)

\* mutant: the results are put into self._data as they come
process_structure_in_place(self, structure) ==
    LET got == update_all(self.funcs, structure, <<>>)
    IN  IF "exc" \in DOMAIN got
        THEN [self |-> [self EXCEPT !.data = Value(got.done)], exc |-> got.exc]
        ELSE [self |-> [self EXCEPT !.n_res = Value(Len(structure)),
                                    !.data = Value(got.data)]]

\* lines 83-91: the App object afterwards, and the exception if one was raised
process_structure(self, structure) ==
    LET got == update_all(self.funcs, structure, <<>>)
    IN  IF "exc" \in DOMAIN got
        THEN [self |-> self, exc |-> got.exc]
        ELSE [self |-> [self EXCEPT !.n_res = Value(Len(structure)),
                                    !.data = Value(got.data)]]

\* mutant: the AttributeError of the unset attribute is not translated
property_untranslated(self, name) ==
    IF self[name].set THEN [ret |-> self[name].value] ELSE [exc |-> "AttributeError"]

\* lines 62-81: the properties n_res, data and score
property(self, name) ==
    IF self[name].set THEN [ret |-> self[name].value] ELSE [exc |-> "ValueError"]

\* line 95: any(self.data[x] for x in keys), which stops at the first list
\* that is not empty and raises KeyError at a key the dict does not hold
RECURSIVE any_data(_, _)
any_data(d, keys) ==
    IF keys = <<>> THEN [ret |-> FALSE]
    ELSE IF Head(keys) \notin DOMAIN d THEN [exc |-> "KeyError"]
    ELSE IF d[Head(keys)] # <<>> THEN [ret |-> TRUE]
    ELSE any_data(d, Tail(keys))

\* line 99: self.data.items(), in insertion order: the labels of
\* get_chirality, those of get_amid_stereo in the order of their first
\* record, and VDW
items(d) ==
    LET amide == {l \in DOMAIN AmideBonds : l \in DOMAIN d}
        firsts == sorted({d[l][1].res_a : l \in amide})
    IN  SelectSeq(<<"L", "D">>, LAMBDA l : l \in DOMAIN d)
        \o [k \in 1..Len(firsts) |-> CHOOSE l \in amide : d[l][1].res_a = firsts[k]]
        \o SelectSeq(<<"VDW">>, LAMBDA l : l \in DOMAIN d)

\* lines 93-112: the lines echoed, or the exception
output_to_terminal(self) ==
    LET data == property(self, "data")
    IN  IF "exc" \in DOMAIN data THEN [exc |-> data.exc, echo |-> <<>>]
        ELSE LET found == any_data(data.ret,
                                   <<"CIS", "NON_PLANAR", "CIS_PROLINE", "D", "VDW">>)
                 shown == SelectSeq(items(data.ret),
                             LAMBDA key : data.ret[key] # <<>> /\ key \in self.display)
             IN  IF "exc" \in DOMAIN found THEN [exc |-> found.exc, echo |-> <<>>]
                 ELSE [echo |->
                         (IF found.ret THEN <<>>
                          ELSE <<[line |-> "No irregularities were found."]>>)
                         \o [k \in 1..Len(shown) |->
                               [line |-> "detected at", key |-> shown[k],
                                values |-> data.ret[shown[k]]]]]

\* lines 145-150: the App object afterwards, and the exception if one was raised
compute_score(self) ==
    LET data == property(self, "data")
        n_res == property(self, "n_res")
    IN  IF "exc" \in DOMAIN data THEN [self |-> self, exc |-> data.exc]
        ELSE IF "VDW" \notin DOMAIN data.ret THEN [self |-> self, exc |-> "KeyError"]
        ELSE IF "exc" \in DOMAIN n_res THEN [self |-> self, exc |-> n_res.exc]
        ELSE IF n_res.ret = 0 THEN [self |-> self, exc |-> "ZeroDivisionError"]
        ELSE [self |-> [self EXCEPT
                 !.score = Value((30 * Len(data.ret["VDW"])) \div n_res.ret)]]


InitApp ==
    /\ struc = <<>>
    /\ InitCalls
    /\ parsed = <<>>
    /\ app \in {App(a, c, v) : a \in BOOLEAN, c \in BOOLEAN, v \in BOOLEAN}
    /\ app_out = [op |-> "none"]
    /\ argv = [files |-> <<>>, amides |-> TRUE, chiralities |-> TRUE,
               clashes |-> TRUE, score |-> FALSE]
    /\ main_i = 0
    /\ stdout = <<>>
    /\ exit_code = Unset

\* a caller hands a structure to app.process_structure
call_process_structure ==
    /\ \E structure \in AppStructures :
          LET got == process_structure(app, structure)
          IN  /\ struc' = structure
              /\ app' = got.self
              /\ app_out' = IF "exc" \in DOMAIN got
                            THEN [op |-> "process_structure", exc |-> got.exc]
                            ELSE [op |-> "process_structure", ret |-> "None"]
    /\ UNCHANGED <<parsed, main_vars, clash_vars, amide_vars, chir_vars>>

\* a caller calls app.output_to_terminal()
call_output_to_terminal ==
    /\ LET got == output_to_terminal(app)
       IN  app_out' = IF "exc" \in DOMAIN got
                      THEN [op |-> "output_to_terminal", exc |-> got.exc]
                      ELSE [op |-> "output_to_terminal", echo |-> got.echo]
    /\ UNCHANGED <<struc, app, parsed, main_vars, clash_vars, amide_vars, chir_vars>>

\* a caller calls app.compute_score()
call_compute_score ==
    /\ LET got == compute_score(app)
       IN  /\ app' = got.self
           /\ app_out' = IF "exc" \in DOMAIN got
                         THEN [op |-> "compute_score", exc |-> got.exc]
                         ELSE [op |-> "compute_score", ret |-> "None"]
    /\ UNCHANGED <<struc, parsed, main_vars, clash_vars, amide_vars, chir_vars>>

\* a caller reads app.n_res, app.data or app.score
read_property ==
    /\ \E name \in {"n_res", "data", "score"} :
          LET got == property(app, name)
          IN  app_out' = IF "exc" \in DOMAIN got
                         THEN [op |-> name, exc |-> got.exc]
                         ELSE [op |-> name, ret |-> got.ret]
    /\ UNCHANGED <<struc, app, parsed, main_vars, clash_vars, amide_vars, chir_vars>>

NextApp ==
    call_process_structure \/ call_output_to_terminal \/ call_compute_score \/ read_property

SpecApp == InitApp /\ [][NextApp]_vars


\* ------------------------------------------------------------------- C22
\* the last call on the App object raised this exception
Raised(op, exc) == app_out = [op |-> op, exc |-> exc]

\* the last call on the App object was this one and it raised nothing
Completed(op) == app_out.op = op /\ "exc" \notin DOMAIN app_out

\* while _data is unset the four calls that need a result raise ValueError,
\* and so does reading score while _score is unset
UnsetIsValueError ==
    /\ app_out.op = "none" => (app.data = Unset /\ app.n_res = Unset /\ app.score = Unset)
    /\ app.data = Unset <=> app.n_res = Unset
    /\ (app.data = Unset /\ app_out.op \in {"output_to_terminal", "compute_score",
                                             "data", "n_res"})
          => Raised(app_out.op, "ValueError")
    /\ (app.score = Unset /\ app_out.op = "score") => Raised("score", "ValueError")

\* _data and _n_res are assigned only by a process_structure call that
\* completed, _score only by a compute_score call that completed
OnlyProduced ==
    /\ (app.data = Unset /\ app'.data # Unset) => Completed("process_structure")'
    /\ (app.n_res = Unset /\ app'.n_res # Unset) => Completed("process_structure")'
    /\ (app.score = Unset /\ app'.score # Unset) => Completed("compute_score")'

\* C22: for every combination of enabled checks, until a
\* process_structure call has completed output_to_terminal, compute_score
\* and reading data or n_res raise ValueError, and until a compute_score call
\* has completed reading score raises ValueError.
C22_UnavailableUntilProduced == [](UnsetIsValueError) /\ [][OnlyProduced]_vars

\* C22 witness: process_structure raised, so nothing has been produced, and
\* the read of n_res that followed raised ValueError
C22_Witness ==
    /\ struc # <<>>
    /\ app.data = Unset
    /\ Len(app.funcs) = 3
    /\ Raised("n_res", "ValueError")



\* ---------------------------------------------------------------- main
\* What get_structure(path) comes to for a file of the command line: a
\* PDBCodeError, or a structure.  --pymol is left at its default, off.
MainStructures ==
    {AppChain(choices) : choices \in UNION {[1..n -> AppRegular] : n \in 1..2}}
    \cup {AppChain(<<c>>) : c \in AppSpecial}

MainFiles ==
    {[load |-> "PDBCodeError"]}
    \cup {[load |-> "Structure", structure |-> s] : s \in MainStructures}

InitMain ==
    /\ struc = <<>>
    /\ InitCalls
    /\ parsed = <<>>
    /\ app = App(FALSE, FALSE, FALSE)
    /\ app_out = [op |-> "none"]
    /\ \E n \in 1..2 : \E files \in [1..n -> MainFiles] :
          \E amides \in BOOLEAN, chiralities \in BOOLEAN, with_clashes \in BOOLEAN,
             score \in BOOLEAN :
              argv = [files |-> files, amides |-> amides, chiralities |-> chiralities,
                      clashes |-> with_clashes, score |-> score]
    /\ main_i = 1
    /\ stdout = <<>>
    /\ exit_code = Unset

\* lines 188-190 and 193-195: the error is echoed and click.Abort raised,
\* which click turns into exit code 1
main_abort(head, exc) ==
    /\ stdout' = head \o <<[line |-> "error", file |-> main_i, exc |-> exc]>>
    /\ app_out' = [op |-> "main", exc |-> "Abort"]
    /\ exit_code' = Value(1)
    /\ main_i' = main_i

\* an exception nothing catches ends the command with exit code 1
main_uncaught(head, exc) ==
    /\ stdout' = head
    /\ app_out' = [op |-> "main", exc |-> exc]
    /\ exit_code' = Value(1)
    /\ main_i' = main_i

\* lines 197-207 and the step to the next path
main_next(head) ==
    /\ stdout' = head
    /\ main_i' = main_i + 1
    /\ UNCHANGED <<app_out, exit_code>>

\* lines 182-207: the body of the loop for the path at main_i
main_file ==
    /\ exit_code = Unset
    /\ main_i <= Len(argv.files)
    /\ \E file \in {argv.files[main_i]},
          fresh \in {App(argv.amides, argv.chiralities, argv.clashes)},
          head \in {stdout \o <<[line |-> "rule"], [line |-> "name", file |-> main_i]>>} :
          IF file.load = "PDBCodeError"
          THEN /\ main_abort(head, "PDBCodeError")
               /\ app' = fresh
               /\ struc' = struc
          ELSE \E processed \in {process_structure(fresh, file.structure)} :
               /\ struc' = file.structure
               /\ IF "exc" \in DOMAIN processed
                  THEN /\ app' = processed.self
                       /\ IF processed.exc = "MissingInformationError"
                          THEN main_abort(head, "MissingInformationError")
                          ELSE main_uncaught(head, processed.exc)
                  ELSE \E shown \in {output_to_terminal(processed.self)} :
                       IF "exc" \in DOMAIN shown
                       THEN /\ app' = processed.self
                            /\ main_uncaught(head, shown.exc)
                       ELSE IF ~argv.score
                       THEN /\ app' = processed.self
                            /\ main_next(head \o shown.echo)
                       ELSE \E scored \in {compute_score(processed.self)} :
                            /\ app' = scored.self
                            /\ IF "exc" \in DOMAIN scored
                               THEN main_uncaught(head \o shown.echo, scored.exc)
                               ELSE main_next(head \o shown.echo
                                        \o <<[line |-> "CLASH SCORE", file |-> main_i,
                                              value |-> property(scored.self, "score").ret]>>)
    /\ UNCHANGED <<parsed, argv, clash_vars, amide_vars, chir_vars>>

\* line 222, and the return of main
main_end ==
    /\ exit_code = Unset
    /\ main_i > Len(argv.files)
    /\ stdout' = stdout \o <<[line |-> "rule"]>>
    /\ exit_code' = Value(0)
    /\ UNCHANGED <<struc, parsed, app_vars, argv, main_i, clash_vars, amide_vars, chir_vars>>

NextMain == main_file \/ main_end

SpecMain == InitMain /\ [][NextMain]_vars

\* ------------------------------------------------------------------- C23
\* the files whose loading raises PDBCodeError or whose processing raises
\* MissingInformationError
FailingFiles ==
    {i \in 1..Len(argv.files) :
        \/ argv.files[i].load = "PDBCodeError"
        \/ /\ argv.files[i].load = "Structure"
           /\ "exc" \in DOMAIN process_structure(
                  App(argv.amides, argv.chiralities, argv.clashes),
                  argv.files[i].structure)
           /\ process_structure(App(argv.amides, argv.chiralities, argv.clashes),
                                argv.files[i].structure).exc = "MissingInformationError"}

\* the files named in the output, in the order of their names
NamedFiles ==
    LET names == SelectSeq(stdout, LAMBDA l : l.line = "name")
    IN  [k \in 1..Len(names) |-> names[k].file]

\* the lines printed for file i other than its name
LinesOf(i) == {k \in 1..Len(stdout) : "file" \in DOMAIN stdout[k] /\ stdout[k].file = i
                                       /\ stdout[k].line # "name"}

\* the files are taken in argument order, and at the first failing file the
\* error is printed, nothing else is printed for it, no later file is
\* touched and the exit code is not 0
AbortsAtFirstFailure ==
    /\ NamedFiles = [k \in 1..Len(NamedFiles) |-> k]
    /\ (exit_code # Unset /\ FailingFiles # {}) =>
          LET first == CHOOSE i \in FailingFiles : \A j \in FailingFiles : i <= j
          IN  /\ exit_code # Value(0)
              /\ Len(NamedFiles) <= first
              /\ Len(NamedFiles) = first =>
                    /\ stdout[Len(stdout)].line = "error"
                    /\ \A k \in LinesOf(first) : stdout[k].line = "error"

\* without a failing file there is output and the exit code is 0
SucceedsOtherwise ==
    (exit_code # Unset /\ FailingFiles = {}) => (stdout # <<>> /\ exit_code = Value(0))

\* C23: main takes the files in argument order; at the first file whose
\* loading raises PDBCodeError or whose processing raises
\* MissingInformationError it prints the error and aborts with a non-zero
\* exit code, without a result for that file and without touching a later
\* one; when no file fails it prints something and exits with code 0.
C23_AbortOrSucceed == AbortsAtFirstFailure /\ SucceedsOtherwise


\* ------------------------------------------------------------------- C24
\* the numeric value of a label
LabelValue(key) == (ChiralCenters @@ AmideBonds @@ Clashes)[key]

\* the records the App object holds under a label
DataRecords(key) ==
    IF app.data.set /\ key \in DOMAIN app.data.value
    THEN {app.data.value[key][k] : k \in 1..Len(app.data.value[key])}
    ELSE {}

\* C24: every record the App object holds carries the numeric value of the
\* label it is filed under, which is never negative; a D record is more
\* severe than an L record, a CIS_PROLINE record less severe than a CIS
\* record, and every clash record has severity 1.
C24_SeverityOfLabel ==
    /\ \A key \in {"L", "D", "TRANS", "CIS_PROLINE", "NON_PLANAR", "CIS", "VDW"} :
          \A rec \in DataRecords(key) : rec.score = LabelValue(key) /\ rec.score >= 0
    /\ \A d \in DataRecords("D"), l \in DataRecords("L") : d.score > l.score
    /\ \A p \in DataRecords("CIS_PROLINE"), c \in DataRecords("CIS") : p.score < c.score
    /\ \A v \in DataRecords("VDW") : v.score = 1

\* C24 witness: one result with records under D, L, CIS, CIS_PROLINE and VDW
C24_Witness ==
    \A key \in {"L", "D", "CIS_PROLINE", "CIS", "VDW"} : DataRecords(key) # {}


\* ------------------------------------------------------------------- C25
\* C25: no two entries of the radius table add up to more than 5 A + 0.5 A,
\* so that every residue pair with two heavy atoms closer than their
\* threshold, which is not both CYX and which the filter of neighbouring
\* residues lets through, is reported, whether or not the atoms are within
\* the query radius.
C25_QueryHidesNoClash ==
    clash_pc = "returned" =>
        /\ \A a \in DOMAIN VDW_RADII, b \in DOMAIN VDW_RADII :
              VDW_RADII[a] + VDW_RADII[b] - 50 <= 500
        /\ \A p \in ResiduePairs :
              (/\ ~BothCYX(p[1], p[2])
               /\ \E x \in HeavyOf(p[1]), y \in HeavyOf(p[2]) :
                     /\ TooClose(x, y)
                     /\ p[2] - p[1] # 1 \/ ((x.name \in backbone) # (y.name \in backbone)))
              => Reported(p[1], p[2])


\* ======================================================== get_structure
\* parser.py lines 111-130 hand back the parsed Structure with its class
\* replaced by SelectiveStructure, whose get_residues the classifiers call.
\* A parsed structure is a sequence of chains, a chain a sequence of
\* residues, each with the hetero flag of its id.

\* str.strip() of a hetero flag: ' ', 'W' or 'H_' and a name
strip(hetero) == IF hetero = " " THEN "" ELSE hetero

\* mutant: the hetero flag is not looked at
RECURSIVE residues_of_chain_by_name(_)
residues_of_chain_by_name(chain) ==
    IF chain = <<>> THEN <<>>
    ELSE IF Head(chain).resname \in {"NME", "HOH", "ACE", "WAT"}
    THEN residues_of_chain_by_name(Tail(chain))
    ELSE <<Head(chain)>> \o residues_of_chain_by_name(Tail(chain))

\* utils.py lines 108-116: the inner loop over the residues of one chain
RECURSIVE residues_of_chain(_)
residues_of_chain(chain) ==
    IF chain = <<>> THEN <<>>
    ELSE IF Head(chain).resname \in {"NME", "HOH", "ACE", "WAT"}
    THEN residues_of_chain(Tail(chain))
    ELSE IF strip(Head(chain).hetero) # ""
    THEN residues_of_chain(Tail(chain))
    ELSE <<Head(chain)>> \o residues_of_chain(Tail(chain))

\* utils.py lines 105-116: SelectiveStructure.get_residues
get_residues(structure) ==
    Flatten([c \in 1..Len(structure) |-> residues_of_chain(structure[c])])

\* ------------------------------------------- structures as files hold them
\* At position r of the file: a regular residue, an acetyl cap written as
\* ATOM records (one C atom), a water, a selenomethionine written as HETATM
\* records, or an alanine without CB.
ParsedKinds == {"trans", "cis", "ACE", "HOH", "MSE", "gap"}

ParsedResidue(r, kind) ==
    LET regular(choice) == AppResidue(r, choice)
    IN  IF kind = "trans"
        THEN [hetero |-> " "] @@ regular(AppChoice("ALA", 6 * Sixth, 80, {"N", "CA", "C", "CB"}))
        ELSE IF kind = "cis"
        THEN [hetero |-> " "] @@ regular(AppChoice("GLY", 0, 80, {"N", "CA", "C"}))
        ELSE IF kind = "ACE"
        THEN [hetero |-> " "] @@ regular(AppChoice("ACE", 0, 80, {"C"}))
        ELSE IF kind = "MSE"
        THEN [hetero |-> "H_MSE"] @@ regular(AppChoice("MSE", 0, 80, {"N", "C", "CB"}))
        ELSE IF kind = "gap"
        THEN [hetero |-> " "] @@ regular(AppChoice("ALA", 0, 80, {"N", "CA", "C"}))
        ELSE [hetero |-> "W", resname |-> "HOH", omega |-> 0,
              atoms |-> <<[name |-> "O", element |-> "O",
                           coord |-> <<333 * (r - 1), 0, 300>>]>>]

\* the residues of a file in one chain, or in two chains cut after the
\* first residue
ParsedStructures ==
    LET files == {[r \in 1..Len(kinds) |-> ParsedResidue(r, kinds[r])] :
                     kinds \in UNION {[1..n -> ParsedKinds] : n \in 0..MaxRes}}
    IN  {<<f>> : f \in files}
        \cup {<<SubSeq(f, 1, 1), SubSeq(f, 2, Len(f))>> : f \in {g \in files : Len(g) >= 2}}

InitSelective ==
    /\ parsed \in ParsedStructures
    /\ struc = get_residues(parsed)
    /\ InitCalls
    /\ app = App(FALSE, FALSE, FALSE)
    /\ app_out = [op |-> "none"]
    /\ argv = [files |-> <<>>, amides |-> TRUE, chiralities |-> TRUE,
               clashes |-> TRUE, score |-> FALSE]
    /\ main_i = 0
    /\ stdout = <<>>
    /\ exit_code = Unset

NextSelective == NextAmide \/ NextChirality

SpecSelective == InitSelective /\ [][NextSelective]_vars

\* ------------------------------------------------------------------- C26
\* blank hetero flag and a name that is neither a cap nor a water
Kept(residue) ==
    residue.hetero = " " /\ residue.resname \notin {"NME", "HOH", "ACE", "WAT"}

\* the residue has the atoms the classifiers ask for
Gapless(residue) ==
    /\ {"N", "CA", "C"} \subseteq atom_names(residue)
    /\ "CB" \in atom_names(residue) \/ residue.resname = "GLY"

\* C26: the residues the classifiers iterate over are exactly the residues
\* of the parsed structure with a blank hetero flag and a name other than
\* NME, HOH, ACE and WAT, in the order of the chains and as they were
\* parsed; and when none of these lacks a required atom, neither
\* get_amid_stereo nor get_chirality ends with MissingInformationError.
C26_SelectiveResidues ==
    /\ struc = SelectSeq(Flatten(parsed), Kept)
    /\ (\A i \in 1..Len(struc) : Gapless(struc[i])) =>
          /\ amide_pc = "raised" => amide_result.exc # "MissingInformationError"
          /\ chir_pc = "raised" => chir_result.exc # "MissingInformationError"

\* C26 witness: a file with a cap lacking CA and N, a water and three
\* residues in between; both classifiers returned, with one record per
\* bond and per residue
C26_Witness ==
    /\ \E k \in 1..Len(Flatten(parsed)) : Flatten(parsed)[k].resname = "ACE"
    /\ Len(Flatten(parsed)) > Len(struc)
    /\ Len(struc) >= 2
    /\ amide_pc = "returned" /\ Cardinality(AmideRecords) = Len(struc) - 1
    /\ chir_pc = "returned" /\ Len(chir_result.L) + Len(chir_result.D) = Len(struc)


\* ------------------------------------------------------------------- C27
\* what the App object holds after a process_structure call that completed
\* is what all its enabled classifiers returned for the structure of the
\* call, with that structure's residue count
DataIsWhole ==
    Completed("process_structure") =>
        /\ update_all(app.funcs, struc, <<>>) = [data |-> app.data.value]
        /\ app.n_res = Value(Len(struc))

\* a process_structure call that raised left _data and _n_res as they were,
\* and so did every call of another method
FailedLeavesResults ==
    (app'.data # app.data \/ app'.n_res # app.n_res) => Completed("process_structure")'

\* C27: process_structure is all or nothing: when an enabled classifier
\* raises, data and n_res stay as they were before the call, and data never
\* holds the results of only some of the enabled classifiers.
C27_AllOrNothing == [](DataIsWhole) /\ [][FailedLeavesResults]_vars

\* C27 witness: with the three checks enabled and a result held, a call
\* raised in get_amide_stereo after get_chirality had returned
C27_Witness ==
    /\ Len(app.funcs) = 3
    /\ app.data.set
    /\ Raised("process_structure", "MissingInformationError")
    /\ "exc" \notin DOMAIN call_func("get_chirality", struc)
    /\ "exc" \in DOMAIN call_func("get_amide_stereo", struc)


\* ------------------------------------------------------------------- C28
\* C28: once process_structure has completed, compute_score completes
\* without an error, whatever checks are enabled and however many residues
\* there are, and sets score to floor(30 * c / n), c being the number of
\* clash records and n the number of residues.
C28_ScoreAlwaysComputed ==
    (app_out.op = "compute_score" /\ app.data.set) =>
        /\ "exc" \notin DOMAIN app_out
        /\ app.score = Value((30 * Cardinality(DataRecords("VDW"))) \div app.n_res.value)

\* ------------------------------------------------------------------- C29
\* C29: once process_structure has completed, output_to_terminal completes
\* without an error, whatever checks are enabled and whatever the result,
\* and prints 'No irregularities were found.' exactly when none of the CIS,
\* NON_PLANAR, CIS_PROLINE, D and VDW lists holds a record.
C29_OutputAlwaysPrinted ==
    (app_out.op = "output_to_terminal" /\ app.data.set) =>
        /\ "exc" \notin DOMAIN app_out
        /\ (\E k \in 1..Len(app_out.echo) :
                app_out.echo[k] = [line |-> "No irregularities were found."])
             <=> (\A key \in {"CIS", "NON_PLANAR", "CIS_PROLINE", "D", "VDW"} :
                      DataRecords(key) = {})

\* ------------------------------------------------------------------- C30
\* C30: reading score raises ValueError or gives the value that belongs to
\* the result of the last process_structure call that completed.
C30_ScoreOfLastStructure ==
    app_out.op = "score" =>
        \/ Raised("score", "ValueError")
        \/ /\ "ret" \in DOMAIN app_out
           /\ app.n_res.value # 0
           /\ app_out.ret = (30 * Cardinality(DataRecords("VDW"))) \div app.n_res.value

=============================================================================
